---- MODULE Spec2Model ----
(***************************************************************************)
(* Buffer pool manager, LRU replacer and B+ tree index of bustub.          *)
(*                                                                         *)
(*   src/src/buffer/lru_replacer.cpp         LRUReplacer                   *)
(*   src/src/buffer/buffer_pool_manager.cpp  BufferPoolManager             *)
(*   src/src/storage/index/b_plus_tree.cpp   BPlusTree                     *)
(*                                                                         *)
(* Every public call holds the pool latch (or the replacer latch) from its *)
(* first statement to its return, so a call is one atomic step.  A page's  *)
(* 4096 bytes are abstracted to one value of Data; 0 is the zeroed page    *)
(* (Page::ResetMemory, and a disk page that was never written).            *)
(***************************************************************************)
EXTENDS Integers, Sequences, FiniteSets, TLC

\* ---------------------------------------------------------------- bounds
MaxPoolSize == 2
MaxPageId == 2
MaxPinCount == 2
MaxData == 1
MaxReplacerSize == 3
MaxKey == 4
MaxValue == 2
MaxTreePageId == 10
MaxTreePin == 4
MaxLeafSize == 3
MaxInternalSize == 4
MaxThreads == 2
MaxInserts == 1

INVALID_PAGE_ID == -1
NoFrame == -1

\* no IndexIterator is alive
NoIterator ==
  [how |-> "none", key |-> 0, lp |-> NoFrame, current_index |-> 0, out |-> <<>>,
   status |-> "none"]

PageIds == 0 .. (MaxPageId - 1)
Data == 0 .. MaxData
Keys == 1 .. MaxKey
Values == 1 .. MaxValue
TreePageIds == 0 .. (MaxTreePageId - 1)
Threads == 1 .. MaxThreads

VARIABLES
  pool_size_,     \* BufferPoolManager::pool_size_ = LRUReplacer::max_num_pages_
  pages_,         \* frame -> [page_id_, pin_count_, is_dirty_, data_]
  page_table_,    \* page id -> frame, the domain is the set of keys
  free_list_,     \* sequence of frames, front first
  unpin_list_,    \* LRUReplacer::unpin_list_, front first
  unpin_map_,     \* key set of LRUReplacer::unpin_map_
  next_page_id_,  \* next id AllocatePage hands out
  disk,           \* DiskManager: page id -> contents
  ret,            \* the last call: its name, arguments and results
  new_ids,        \* history: the page ids NewPage has returned
  pins,           \* history: successful pins minus unpins of a page since it became resident
  watched,        \* history: the page whose bytes are followed
  last_written,   \* history: {the bytes last written to the watched page}, {} if unknown
  unreleased,     \* history: the watched page was written and not yet released by UnpinPage(p, true)
  lru_order,      \* history: frames in the replacer, oldest insertion first
  s1,             \* history: progress of scenario S1
  s2,             \* history: progress of scenario S2
  root_page_id_,      \* BPlusTree::root_page_id_
  leaf_max_size_,     \* BPlusTree::leaf_max_size_
  internal_max_size_, \* BPlusTree::internal_max_size_
  latch,          \* frame -> the holders of Page::rwlatch_: [w: a thread or 0, r: set of threads]
  th,             \* thread -> the operation it runs, its position, its Transaction sets
  present,        \* history: key -> the value of its last successful Insert not followed by a Remove, else 0
  inserted,       \* history: key -> the number of Inserts that stored it
  tret,           \* history: the tree operation that completed last
  conc,           \* history: the calls of the threads that run at once
  iter            \* the IndexIterator alive: how it was made, lp_, current_index_, the keys read

vars == <<pool_size_, pages_, page_table_, free_list_, unpin_list_, unpin_map_,
          next_page_id_, disk, ret, new_ids, pins, watched, last_written, unreleased, lru_order, s1, s2,
          root_page_id_, leaf_max_size_, internal_max_size_, latch, th, present, inserted, tret, conc,
          iter>>

TreeVars ==
  <<root_page_id_, leaf_max_size_, internal_max_size_, latch, th, present, inserted, tret, conc,
          iter>>

Frames == 0 .. (pool_size_ - 1)

\* ------------------------------------------------------------ containers
\* std::list<frame_id_t>
PushFront(l, x) == <<x>> \o l
PushBack(l, x) == Append(l, x)
PopFront(l) == Tail(l)
Back(l) == l[Len(l)]
PopBack(l) == SubSeq(l, 1, Len(l) - 1)
\* std::list::erase of the node the map's iterator points to
EraseNode(l, x) == SelectSeq(l, LAMBDA y : y # x)
Elems(l) == {l[i] : i \in 1 .. Len(l)}

\* std::unordered_map<page_id_t, frame_id_t>
MapErase(m, k) == [q \in (DOMAIN m) \ {k} |-> m[q]]
MapPut(m, k, v) == [q \in (DOMAIN m) \cup {k} |-> IF q = k THEN v ELSE m[q]]
EmptyMap == [q \in {} |-> 0]

RECURSIVE Iota(_, _)
Iota(i, n) == IF i >= n THEN <<>> ELSE <<i>> \o Iota(i + 1, n)

\* ------------------------------------------------------------ LRUReplacer
\* The replacer state is the pair [list, map]; each operator returns the
\* state after the call together with the call's results.

\* faulty variant: the victim is taken from the front, the most recently unpinned
LRUVictim_Front(r) ==
  IF r.list = <<>>
    THEN [ok |-> FALSE, frame |-> NoFrame, list |-> r.list, map |-> r.map]
    ELSE [ok |-> TRUE, frame |-> Head(r.list),
          list |-> PopFront(r.list), map |-> r.map \ {Head(r.list)}]

LRUVictim(r) ==
  IF r.list = <<>>
    THEN [ok |-> FALSE, frame |-> NoFrame, list |-> r.list, map |-> r.map]
    ELSE [ok |-> TRUE, frame |-> Back(r.list),
          list |-> PopBack(r.list), map |-> r.map \ {Back(r.list)}]

LRUPin(r, frame_id) ==
  IF frame_id \notin r.map
    THEN [list |-> r.list, map |-> r.map]
    ELSE [list |-> EraseNode(r.list, frame_id), map |-> r.map \ {frame_id}]

\* BUSTUB_ASSERT(unpin_list_.size() < max_num_pages_)
LRUUnpinAssert(r, frame_id, max_num_pages) ==
  frame_id \notin r.map => Len(r.list) < max_num_pages

\* faulty variant: Unpin of a member moves it to the front
LRUUnpin_MoveToFront(r, frame_id) ==
  [list |-> PushFront(EraseNode(r.list, frame_id), frame_id),
   map |-> r.map \cup {frame_id}]

\* faulty variant: Unpin inserts without looking the frame up
LRUUnpin_NoLookup(r, frame_id) ==
  [list |-> PushFront(r.list, frame_id), map |-> r.map \cup {frame_id}]

LRUUnpin(r, frame_id) ==
  IF frame_id \notin r.map
    THEN [list |-> PushFront(r.list, frame_id), map |-> r.map \cup {frame_id}]
    ELSE [list |-> r.list, map |-> r.map]

LRUSize(r) == Len(r.list)

Replacer == [list |-> unpin_list_, map |-> unpin_map_]

\* ------------------------------------------------------ BufferPoolManager
\* The pool state is a record b; each operator returns the state after the
\* call together with the call's results (ok, frame, page_id, miss).

Pool ==
  [pages |-> pages_, page_table |-> page_table_, free_list |-> free_list_,
   list |-> unpin_list_, map |-> unpin_map_,
   next_page_id |-> next_page_id_, disk |-> disk]

\* Page::Page() / the frame after ResetMemory and the metadata reset
FreshPage(page_id, pin_count) ==
  [page_id_ |-> page_id, pin_count_ |-> pin_count, is_dirty_ |-> FALSE, data_ |-> 0]

\* DiskManager::WritePage / ReadPage
WritePage(d, page_id, data) == [d EXCEPT ![page_id] = data]
ReadPage(d, page_id) == d[page_id]

\* faulty variant: a dirty victim is not written back
InitNewPage_NoWriteBack(b, page_id) ==
  LET fromFree == b.free_list # <<>>
      v == LRUVictim([list |-> b.list, map |-> b.map])
      frame_id == IF fromFree THEN Head(b.free_list) ELSE v.frame
      old == b.pages[frame_id]
      table == IF fromFree THEN b.page_table ELSE MapErase(b.page_table, old.page_id_)
  IN  [pages |-> [b.pages EXCEPT ![frame_id] = FreshPage(page_id, 1)],
       page_table |-> MapPut(table, page_id, frame_id),
       free_list |-> IF fromFree THEN PopFront(b.free_list) ELSE b.free_list,
       list |-> IF fromFree THEN b.list ELSE v.list,
       map |-> IF fromFree THEN b.map ELSE v.map,
       next_page_id |-> b.next_page_id,
       disk |-> b.disk,
       frame |-> frame_id]

\* Takes a frame from the free list, else evicts the replacer's victim
\* (erasing the victim's page-table entry and writing it back if dirty),
\* then resets the frame for page_id with pin count 1.
InitNewPage(b, page_id) ==
  LET fromFree == b.free_list # <<>>
      v == LRUVictim([list |-> b.list, map |-> b.map])
      frame_id == IF fromFree THEN Head(b.free_list) ELSE v.frame
      old == b.pages[frame_id]
      table == IF fromFree THEN b.page_table ELSE MapErase(b.page_table, old.page_id_)
      disk1 == IF ~fromFree /\ old.is_dirty_
                 THEN WritePage(b.disk, old.page_id_, old.data_)
                 ELSE b.disk
  IN  [pages |-> [b.pages EXCEPT ![frame_id] = FreshPage(page_id, 1)],
       page_table |-> MapPut(table, page_id, frame_id),
       free_list |-> IF fromFree THEN PopFront(b.free_list) ELSE b.free_list,
       list |-> IF fromFree THEN b.list ELSE v.list,
       map |-> IF fromFree THEN b.map ELSE v.map,
       next_page_id |-> b.next_page_id,
       disk |-> disk1,
       frame |-> frame_id]

Result(b, ok, frame, page_id, miss) ==
  [pages |-> b.pages, page_table |-> b.page_table, free_list |-> b.free_list,
   list |-> b.list, map |-> b.map, next_page_id |-> b.next_page_id, disk |-> b.disk,
   ok |-> ok, frame |-> frame, page_id |-> page_id, miss |-> miss]

FetchPageImpl(b, page_id) ==
  IF page_id \in DOMAIN b.page_table
    THEN LET f == b.page_table[page_id]
             r == IF b.pages[f].pin_count_ = 0
                    THEN LRUPin([list |-> b.list, map |-> b.map], f)
                    ELSE [list |-> b.list, map |-> b.map]
             b1 == [b EXCEPT !.list = r.list, !.map = r.map,
                             !.pages[f].pin_count_ = @ + 1]
         IN  Result(b1, TRUE, f, page_id, FALSE)
    ELSE IF b.free_list = <<>> /\ LRUSize([list |-> b.list, map |-> b.map]) = 0
      THEN Result(b, FALSE, NoFrame, page_id, TRUE)
      ELSE LET n == InitNewPage(b, page_id)
               b1 == [n EXCEPT !.pages[n.frame].data_ = ReadPage(n.disk, page_id)]
           IN  Result(b1, TRUE, n.frame, page_id, TRUE)

\* faulty variant: the dirty flag takes the value of is_dirty
UnpinPageImpl_Assign(b, page_id, is_dirty) ==
  IF page_id \notin DOMAIN b.page_table
    THEN Result(b, FALSE, NoFrame, page_id, FALSE)
    ELSE LET frame_id == b.page_table[page_id]
             page == b.pages[frame_id]
         IN  IF page.pin_count_ <= 0
               THEN Result(b, FALSE, frame_id, page_id, FALSE)
               ELSE LET page1 == [page EXCEPT !.is_dirty_ = is_dirty,
                                              !.pin_count_ = @ - 1]
                        r == IF page1.pin_count_ = 0
                               THEN LRUUnpin([list |-> b.list, map |-> b.map], frame_id)
                               ELSE [list |-> b.list, map |-> b.map]
                        b1 == [b EXCEPT !.pages[frame_id] = page1,
                                        !.list = r.list, !.map = r.map]
                    IN  Result(b1, TRUE, frame_id, page_id, FALSE)

UnpinPageImpl(b, page_id, is_dirty) ==
  IF page_id \notin DOMAIN b.page_table
    THEN Result(b, FALSE, NoFrame, page_id, FALSE)
    ELSE LET frame_id == b.page_table[page_id]
             page == b.pages[frame_id]
         IN  IF page.pin_count_ <= 0
               THEN Result(b, FALSE, frame_id, page_id, FALSE)
               ELSE LET page1 == [page EXCEPT !.is_dirty_ = (@ \/ is_dirty),
                                              !.pin_count_ = @ - 1]
                        r == IF page1.pin_count_ = 0
                               THEN LRUUnpin([list |-> b.list, map |-> b.map], frame_id)
                               ELSE [list |-> b.list, map |-> b.map]
                        b1 == [b EXCEPT !.pages[frame_id] = page1,
                                        !.list = r.list, !.map = r.map]
                    IN  Result(b1, TRUE, frame_id, page_id, FALSE)

\* the assertion of LRUReplacer::Unpin, as UnpinPageImpl reaches it
UnpinPageAssert(b, page_id, max_num_pages) ==
  (/\ page_id \in DOMAIN b.page_table
   /\ b.pages[b.page_table[page_id]].pin_count_ = 1)
  => LRUUnpinAssert([list |-> b.list, map |-> b.map], b.page_table[page_id], max_num_pages)

\* faulty variant: the page is written but its dirty flag stays set
FlushPageImpl_KeepsDirty(b, page_id) ==
  IF page_id = INVALID_PAGE_ID
    THEN Result(b, FALSE, NoFrame, page_id, FALSE)
    ELSE IF page_id \notin DOMAIN b.page_table
      THEN Result(b, FALSE, NoFrame, page_id, FALSE)
      ELSE LET f == b.page_table[page_id]
               b1 == IF b.pages[f].is_dirty_
                       THEN [b EXCEPT !.disk = WritePage(@, b.pages[f].page_id_, b.pages[f].data_)]
                       ELSE b
           IN  Result(b1, TRUE, f, page_id, FALSE)

FlushPageImpl(b, page_id) ==
  IF page_id = INVALID_PAGE_ID
    THEN Result(b, FALSE, NoFrame, page_id, FALSE)
    ELSE IF page_id \notin DOMAIN b.page_table
      THEN Result(b, FALSE, NoFrame, page_id, FALSE)
      ELSE LET f == b.page_table[page_id]
               b1 == IF b.pages[f].is_dirty_
                       THEN [b EXCEPT !.disk = WritePage(@, b.pages[f].page_id_, b.pages[f].data_),
                                      !.pages[f].is_dirty_ = FALSE]
                       ELSE b
           IN  Result(b1, TRUE, f, page_id, FALSE)

\* faulty variant: the page id is allocated before the pool is found exhausted
NewPageImpl_AllocatesFirst(b) ==
  IF b.free_list = <<>> /\ LRUSize([list |-> b.list, map |-> b.map]) = 0
    THEN Result([b EXCEPT !.next_page_id = @ + 1], FALSE, NoFrame, INVALID_PAGE_ID, FALSE)
    ELSE LET page_id == b.next_page_id
             n == InitNewPage([b EXCEPT !.next_page_id = @ + 1], page_id)
             b1 == [n EXCEPT !.disk = WritePage(@, n.pages[n.frame].page_id_,
                                                n.pages[n.frame].data_)]
         IN  Result(b1, TRUE, n.frame, page_id, FALSE)

\* AllocatePage is next_page_id_++
NewPageImpl(b) ==
  IF b.free_list = <<>> /\ LRUSize([list |-> b.list, map |-> b.map]) = 0
    THEN Result(b, FALSE, NoFrame, INVALID_PAGE_ID, FALSE)
    ELSE LET page_id == b.next_page_id
             n == InitNewPage([b EXCEPT !.next_page_id = @ + 1], page_id)
             b1 == [n EXCEPT !.disk = WritePage(@, n.pages[n.frame].page_id_,
                                                n.pages[n.frame].data_)]
         IN  Result(b1, TRUE, n.frame, page_id, FALSE)

\* faulty variant: a pinned page is deleted too
DeletePageImpl_NoPinCheck(b, page_id) ==
  IF page_id \notin DOMAIN b.page_table
    THEN Result(b, TRUE, NoFrame, page_id, FALSE)
    ELSE LET frame_id == b.page_table[page_id]
             r == LRUPin([list |-> b.list, map |-> b.map], frame_id)
             disk1 == IF b.pages[frame_id].is_dirty_
                        THEN WritePage(b.disk, page_id, b.pages[frame_id].data_)
                        ELSE b.disk
             b1 == [b EXCEPT !.list = r.list, !.map = r.map,
                             !.page_table = MapErase(@, page_id),
                             !.disk = disk1,
                             !.pages[frame_id] = FreshPage(INVALID_PAGE_ID, 0),
                             !.free_list = PushBack(@, frame_id)]
         IN  Result(b1, TRUE, frame_id, page_id, FALSE)

DeletePageImpl(b, page_id) ==
  IF page_id \notin DOMAIN b.page_table
    THEN Result(b, TRUE, NoFrame, page_id, FALSE)
    ELSE LET frame_id == b.page_table[page_id]
         IN  IF b.pages[frame_id].pin_count_ > 0
               THEN Result(b, FALSE, frame_id, page_id, FALSE)
               ELSE LET r == LRUPin([list |-> b.list, map |-> b.map], frame_id)
                        disk1 == IF b.pages[frame_id].is_dirty_
                                   THEN WritePage(b.disk, page_id, b.pages[frame_id].data_)
                                   ELSE b.disk
                        b1 == [b EXCEPT !.list = r.list, !.map = r.map,
                                        !.page_table = MapErase(@, page_id),
                                        !.disk = disk1,
                                        !.pages[frame_id] = FreshPage(INVALID_PAGE_ID, 0),
                                        !.free_list = PushBack(@, frame_id)]
                    IN  Result(b1, TRUE, frame_id, page_id, FALSE)

\* the loop of FlushAllPagesImpl over frames i .. n-1
RECURSIVE FlushFrames(_, _, _)
FlushFrames(b, i, n) ==
  IF i >= n THEN b
  ELSE IF b.pages[i].page_id_ # INVALID_PAGE_ID /\ b.pages[i].is_dirty_
    THEN FlushFrames([b EXCEPT !.disk = WritePage(@, b.pages[i].page_id_, b.pages[i].data_),
                               !.pages[i].is_dirty_ = FALSE], i + 1, n)
    ELSE FlushFrames(b, i + 1, n)

FlushAllPagesImpl(b, pool_size) ==
  Result(FlushFrames(b, 0, pool_size), TRUE, NoFrame, INVALID_PAGE_ID, FALSE)

\* a caller holding the Page* of a pinned frame writes its bytes (GetData)
WriteDataImpl(b, frame_id, data) ==
  Result([b EXCEPT !.pages[frame_id].data_ = data], TRUE, frame_id,
         b.pages[frame_id].page_id_, FALSE)

\* --------------------------------------------------------------- history
NoCall ==
  [op |-> "ctor", page_id |-> INVALID_PAGE_ID, is_dirty |-> FALSE, data |-> 0,
   ok |-> TRUE, frame |-> NoFrame, miss |-> FALSE, size |-> 0]

Pinned(c, p) == c.op \in {"FetchPage", "NewPage"} /\ c.ok /\ c.page_id = p
Unpinned(c, p) == c.op = "UnpinPage" /\ c.ok /\ c.page_id = p
Wrote(c, p) == c.op = "WriteData" /\ c.page_id = p
Zeroed(c, p) == c.op = "NewPage" /\ c.ok /\ c.page_id = p
Released(c, p) == Unpinned(c, p) /\ c.is_dirty

\* the calls of scenario S1, in order
S1Calls ==
  << [op |-> "Unpin", frame |-> 1], [op |-> "Unpin", frame |-> 2],
     [op |-> "Unpin", frame |-> 3], [op |-> "Unpin", frame |-> 4],
     [op |-> "Unpin", frame |-> 5], [op |-> "Unpin", frame |-> 6],
     [op |-> "Pin", frame |-> 1], [op |-> "Pin", frame |-> 4],
     [op |-> "Unpin", frame |-> 1], [op |-> "Unpin", frame |-> 4],
     [op |-> "Victim"], [op |-> "Victim"], [op |-> "Victim"], [op |-> "Victim"] >>

S1Off == [step |-> -1, out |-> <<>>]

S1Step(m, c) ==
  IF m.step < 0 \/ m.step >= Len(S1Calls) THEN S1Off
  ELSE LET want == S1Calls[m.step + 1]
       IN  IF c.op # want.op THEN S1Off
           ELSE IF c.op = "Victim"
             THEN [step |-> m.step + 1, out |-> Append(m.out, IF c.ok THEN c.frame ELSE NoFrame)]
             ELSE IF c.frame = want.frame THEN [step |-> m.step + 1, out |-> m.out]
                  ELSE S1Off

\* Scenario S2 from construction: 1 NewPage -> p0, 2 write to p0, 3 UnpinPage(p0, true),
\* 4 NewPage -> p1, then either 5 FetchPage(p0), or 6 UnpinPage(p1, _) and 7 FetchPage(p0).
S2Off == [step |-> -1, p0 |-> INVALID_PAGE_ID, p1 |-> INVALID_PAGE_ID, data |-> 0]

S2Step(m, c) ==
  CASE m.step = 0 /\ c.op = "NewPage" /\ c.ok -> [m EXCEPT !.step = 1, !.p0 = c.page_id]
    [] m.step = 1 /\ Wrote(c, m.p0) /\ c.data # 0 -> [m EXCEPT !.step = 2, !.data = c.data]
    [] m.step = 2 /\ Released(c, m.p0) -> [m EXCEPT !.step = 3]
    [] m.step = 3 /\ c.op = "NewPage" /\ c.ok -> [m EXCEPT !.step = 4, !.p1 = c.page_id]
    [] m.step = 4 /\ c.op = "FetchPage" /\ c.page_id = m.p0 -> [m EXCEPT !.step = 5]
    [] m.step = 4 /\ Unpinned(c, m.p1) -> [m EXCEPT !.step = 6]
    [] m.step = 6 /\ c.op = "FetchPage" /\ c.page_id = m.p0 -> [m EXCEPT !.step = 7]
    [] OTHER -> S2Off

\* successful pins minus successful unpins since the page became resident,
\* and the ids NewPage returned
ObservePins ==
  /\ new_ids' = IF ret'.op = "NewPage" /\ ret'.ok THEN new_ids \cup {ret'.page_id} ELSE new_ids
  /\ pins' = [p \in PageIds |->
    IF p \notin DOMAIN page_table_' THEN 0
    ELSE (IF p \in DOMAIN page_table_ THEN pins[p] ELSE 0)
         + (IF Pinned(ret', p) THEN 1 ELSE 0) - (IF Unpinned(ret', p) THEN 1 ELSE 0)]

\* The bytes last written to the watched page.  A write that leaves the pool
\* with no UnpinPage(p, true) after it was never released as dirty: the
\* bytes are unknown from then on, until the page is written again.
ObserveData ==
  LET p == watched
      left == p \in DOMAIN page_table_ /\ p \notin DOMAIN page_table_'
  IN  /\ last_written' =
           IF Wrote(ret', p) THEN {ret'.data}
           ELSE IF Zeroed(ret', p) THEN {0}
           ELSE IF unreleased /\ left THEN {}
           ELSE last_written
      /\ unreleased' =
           /\ unreleased \/ Wrote(ret', p)
           /\ ~Released(ret', p)
           /\ ~Zeroed(ret', p)
           /\ ~left
      /\ s2' = S2Step(s2, ret')
      /\ UNCHANGED watched

\* the replacer's members by age of insertion
ObserveLRU ==
  /\ lru_order' =
       LET kept == SelectSeq(lru_order, LAMBDA f : f \in unpin_map_')
           new == unpin_map_' \ unpin_map_
       IN  IF new = {} THEN kept ELSE Append(kept, CHOOSE f \in new : TRUE)
  /\ s1' = S1Step(s1, ret')

\* ------------------------------------------------------------------ Init
\* BufferPoolManager(pool_size, ...): every frame is in the free list
Constructed(pool_size) ==
  /\ pool_size_ = pool_size
  /\ pages_ = [f \in 0 .. (pool_size - 1) |-> FreshPage(INVALID_PAGE_ID, 0)]
  /\ page_table_ = EmptyMap
  /\ free_list_ = Iota(0, pool_size)
  /\ unpin_list_ = <<>>
  /\ unpin_map_ = {}
  /\ next_page_id_ = 0
  /\ disk = [p \in PageIds |-> 0]
  /\ ret = NoCall
  /\ new_ids = {}
  /\ pins = [p \in PageIds |-> 0]
  /\ last_written = {}
  /\ unreleased = FALSE
  /\ lru_order = <<>>
  /\ s1 = [step |-> 0, out |-> <<>>]
  /\ s2 = [S2Off EXCEPT !.step = 0]
  /\ root_page_id_ = INVALID_PAGE_ID
  /\ leaf_max_size_ = 0
  /\ internal_max_size_ = 0
  /\ latch = [f \in 0 .. (pool_size - 1) |-> [w |-> 0, r |-> {}]]
  /\ th = <<>>
  /\ present = <<>>
  /\ inserted = <<>>
  /\ tret = <<>>
  /\ conc = <<>>
  /\ iter = NoIterator

Init == \E n \in 1 .. MaxPoolSize : Constructed(n) /\ watched = INVALID_PAGE_ID

\* --------------------------------------------------------------- actions
Commit(r) ==
  /\ pages_' = r.pages
  /\ page_table_' = r.page_table
  /\ free_list_' = r.free_list
  /\ unpin_list_' = r.list
  /\ unpin_map_' = r.map
  /\ next_page_id_' = r.next_page_id
  /\ disk' = r.disk
  /\ UNCHANGED pool_size_

FetchPage(page_id) ==
  /\ page_id \in DOMAIN page_table_ =>
       pages_[page_table_[page_id]].pin_count_ < MaxPinCount
  /\ LET r == FetchPageImpl(Pool, page_id)
     IN  /\ Commit(r)
         /\ ret' = [NoCall EXCEPT !.op = "FetchPage", !.page_id = page_id,
                                  !.ok = r.ok, !.frame = r.frame, !.miss = r.miss]

UnpinPage(page_id, is_dirty) ==
  /\ UnpinPageAssert(Pool, page_id, pool_size_)
  /\ LET r == UnpinPageImpl(Pool, page_id, is_dirty)
     IN  /\ Commit(r)
         /\ ret' = [NoCall EXCEPT !.op = "UnpinPage", !.page_id = page_id,
                                  !.is_dirty = is_dirty, !.ok = r.ok, !.frame = r.frame]

FlushPage(page_id) ==
  /\ LET r == FlushPageImpl(Pool, page_id)
     IN  /\ Commit(r)
         /\ ret' = [NoCall EXCEPT !.op = "FlushPage", !.page_id = page_id,
                                  !.ok = r.ok, !.frame = r.frame]

NewPage ==
  /\ next_page_id_ < MaxPageId
  /\ LET r == NewPageImpl(Pool)
     IN  /\ Commit(r)
         /\ ret' = [NoCall EXCEPT !.op = "NewPage", !.page_id = r.page_id,
                                  !.ok = r.ok, !.frame = r.frame]

DeletePage(page_id) ==
  /\ LET r == DeletePageImpl(Pool, page_id)
     IN  /\ Commit(r)
         /\ ret' = [NoCall EXCEPT !.op = "DeletePage", !.page_id = page_id,
                                  !.ok = r.ok, !.frame = r.frame]

FlushAllPages ==
  /\ LET r == FlushAllPagesImpl(Pool, pool_size_)
     IN  /\ Commit(r)
         /\ ret' = [NoCall EXCEPT !.op = "FlushAllPages"]

WriteData(frame_id, data) ==
  /\ pages_[frame_id].pin_count_ > 0
  /\ LET r == WriteDataImpl(Pool, frame_id, data)
     IN  /\ Commit(r)
         /\ ret' = [NoCall EXCEPT !.op = "WriteData", !.page_id = r.page_id,
                                  !.data = data, !.frame = frame_id]

\* Any sequence of calls on the pool, with the pin history
TrackPins ==
  /\ ObservePins
  /\ UNCHANGED <<watched, last_written, unreleased, s2, lru_order, s1>>
  /\ UNCHANGED TreeVars

Next ==
  \/ \E p \in PageIds : FetchPage(p) /\ TrackPins
  \/ \E p \in PageIds, d \in BOOLEAN : UnpinPage(p, d) /\ TrackPins
  \/ \E p \in PageIds \cup {INVALID_PAGE_ID} : FlushPage(p) /\ TrackPins
  \/ NewPage /\ TrackPins
  \/ \E p \in PageIds : DeletePage(p) /\ TrackPins
  \/ FlushAllPages /\ TrackPins
  \/ \E f \in Frames, v \in Data : WriteData(f, v) /\ TrackPins

Spec == Init /\ [][Next]_vars

\* Any sequence of calls on the pool, with the history of the bytes written
TrackData == ObserveData /\ UNCHANGED <<new_ids, pins, lru_order, s1>> /\ UNCHANGED TreeVars

NextData ==
  \/ \E p \in PageIds : FetchPage(p) /\ TrackData
  \/ \E p \in PageIds, d \in BOOLEAN : UnpinPage(p, d) /\ TrackData
  \/ \E p \in PageIds \cup {INVALID_PAGE_ID} : FlushPage(p) /\ TrackData
  \/ NewPage /\ TrackData
  \/ \E p \in PageIds : DeletePage(p) /\ TrackData
  \/ FlushAllPages /\ TrackData
  \/ \E f \in Frames, v \in Data : WriteData(f, v) /\ TrackData

\* the page followed is the first one NewPage hands out
InitData == \E n \in 1 .. MaxPoolSize : Constructed(n) /\ watched = 0

SpecData == InitData /\ [][NextData]_vars

\* ------------------------------------------------- the replacer on its own
CommitLRU(r) ==
  /\ unpin_list_' = r.list
  /\ unpin_map_' = r.map
  /\ UNCHANGED <<pool_size_, pages_, page_table_, free_list_, next_page_id_, disk>>

Victim ==
  /\ LET r == LRUVictim(Replacer)
     IN  /\ CommitLRU(r)
         /\ ret' = [NoCall EXCEPT !.op = "Victim", !.ok = r.ok, !.frame = r.frame]

Pin(frame_id) ==
  /\ CommitLRU(LRUPin(Replacer, frame_id))
  /\ ret' = [NoCall EXCEPT !.op = "Pin", !.frame = frame_id]

Unpin(frame_id) ==
  /\ LRUUnpinAssert(Replacer, frame_id, pool_size_)
  /\ CommitLRU(LRUUnpin(Replacer, frame_id))
  /\ ret' = [NoCall EXCEPT !.op = "Unpin", !.frame = frame_id]

Size ==
  /\ CommitLRU(Replacer)
  /\ ret' = [NoCall EXCEPT !.op = "Size", !.size = LRUSize(Replacer)]

\* S1 runs on a replacer of 7 frames
InitLRU ==
  \E n \in (1 .. MaxReplacerSize) \cup {7} : Constructed(n) /\ watched = INVALID_PAGE_ID

TrackLRU ==
  /\ ObserveLRU
  /\ UNCHANGED <<new_ids, pins, watched, last_written, unreleased, s2>>
  /\ UNCHANGED TreeVars

NextLRU ==
  \/ Victim /\ TrackLRU
  \/ \E f \in Frames : Pin(f) /\ TrackLRU
  \/ \E f \in Frames : Unpin(f) /\ TrackLRU
  \/ Size /\ TrackLRU

SpecLRU == InitLRU /\ [][NextLRU]_vars

\* ============================================================ B+ tree index
\* A tree page is the contents (data_) of a frame.  The page classes
\* (BPlusTreePage, BPlusTreeLeafPage, BPlusTreeInternalPage, HeaderPage) and
\* the ids of the header and guard pages are declared outside
\* b_plus_tree.cpp; the operators of this section follow their use in
\* b_plus_tree.cpp and the description of the pages' layout.
HEADER_PAGE_ID == 0
guard_page_id == 0

NoKey == 0

\* BPlusTreePage header and the pairs of the page; entry i of the code's
\* array is array[i + 1] for i < GetSize.  The entries behind the last pair
\* keep what was written there last: tail holds them for an internal page,
\* whose entry at right_sib_index is read without a check of the size
\* (b_plus_tree.cpp line 359).
TreePage(page_type, page_id, parent_page_id, max_size) ==
  [page_type |-> page_type, page_id |-> page_id, parent_page_id |-> parent_page_id,
   max_size |-> max_size, next_page_id |-> 0, array |-> <<>>, tail |-> <<>>]

GetSize(p) == Len(p.array)
GetMaxSize(p) == p.max_size
GetMinSize(p) == (p.max_size + 1) \div 2
IsLeafPage(p) == p.page_type = "LEAF"
IsRootPage(p) == p.parent_page_id = INVALID_PAGE_ID

\* entry i was written since the page was zeroed
HasSlot(p, i) == 0 <= i /\ i < Len(p.array) + Len(p.tail)
SlotAt(p, i) ==
  IF i < Len(p.array) THEN p.array[i + 1]
  ELSE IF HasSlot(p, i) THEN p.tail[i - Len(p.array) + 1]
  ELSE [key |-> NoKey, value |-> 0]
KeyAt(p, i) == SlotAt(p, i).key
ValueAt(p, i) == SlotAt(p, i).value
SetKeyAt(p, i, key) ==
  IF i < Len(p.array) THEN [p EXCEPT !.array[i + 1].key = key]
  ELSE IF HasSlot(p, i) THEN [p EXCEPT !.tail[i - Len(p.array) + 1].key = key]
  ELSE p

\* the pairs of the page become array; the entries behind them are tail
Drop(s, n) == SubSeq(s, n + 1, Len(s))
SetArray(p, array, tail) ==
  [p EXCEPT !.array = array, !.tail = IF IsLeafPage(p) THEN <<>> ELSE tail]
\* one pair is put in at index i, the pairs from i on move up by one
InsertAt(p, i, pair) ==
  SetArray(p, SubSeq(p.array, 1, i) \o <<pair>> \o SubSeq(p.array, i + 1, Len(p.array)),
           Drop(p.tail, 1))
\* pairs are copied behind the last pair
AppendAll(p, pairs) == SetArray(p, p.array \o pairs, Drop(p.tail, Len(pairs)))
\* the pair at index i is taken out, the pairs behind it move down by one
RemoveAt(p, i) ==
  SetArray(p, SubSeq(p.array, 1, i) \o SubSeq(p.array, i + 2, Len(p.array)),
           <<p.array[Len(p.array)]>> \o p.tail)
\* the size is set to n
Truncate(p, n) ==
  SetArray(p, SubSeq(p.array, 1, n), SubSeq(p.array, n + 1, Len(p.array)) \o p.tail)
SetParentPageId(p, parent_page_id) == [p EXCEPT !.parent_page_id = parent_page_id]
SetNextPageId(p, next_page_id) == [p EXCEPT !.next_page_id = next_page_id]

\* BPlusTreeInternalPage::ValueIndex: the index of the child, -1 if absent
ValueIndex(p, value) ==
  IF \E i \in 1 .. Len(p.array) : p.array[i].value = value
    THEN (CHOOSE i \in 1 .. Len(p.array) :
            /\ p.array[i].value = value
            /\ \A j \in 1 .. (i - 1) : p.array[j].value # value) - 1
    ELSE -1

\* BPlusTreeLeafPage::KeyIndex: the first index whose key is >= key
KeyIndex(p, key) == Cardinality({i \in 1 .. Len(p.array) : p.array[i].key < key})

\* BPlusTreeLeafPage::Lookup
LeafLookup(p, key) ==
  LET i == KeyIndex(p, key)
  IN  IF i < GetSize(p) /\ KeyAt(p, i) = key
        THEN [found |-> TRUE, value |-> ValueAt(p, i)]
        ELSE [found |-> FALSE, value |-> 0]

\* BPlusTreeLeafPage::Insert: keeps the pairs in key order
LeafInsert(p, key, value) == InsertAt(p, KeyIndex(p, key), [key |-> key, value |-> value])

\* BPlusTreeLeafPage::RemoveAndDeleteRecord: the page after the call (its
\* size is the value returned)
RemoveAndDeleteRecord(p, key) ==
  [p EXCEPT !.array = SelectSeq(@, LAMBDA e : e.key # key)]

\* BPlusTreeInternalPage::Lookup: the child whose range holds key
InternalLookup(p, key) ==
  LET n == Cardinality({i \in 2 .. Len(p.array) : p.array[i].key <= key})
  IN  p.array[n + 1].value

\* BPlusTreeInternalPage::PopulateNewRoot
PopulateNewRoot(p, old_value, new_key, new_value) ==
  SetArray(p, <<[key |-> NoKey, value |-> old_value], [key |-> new_key, value |-> new_value]>>,
           Drop(p.tail, 2))

\* BPlusTreeInternalPage::InsertNodeAfter
InsertNodeAfter(p, old_value, new_key, new_value) ==
  InsertAt(p, ValueIndex(p, old_value) + 1, [key |-> new_key, value |-> new_value])

\* BPlusTreeInternalPage::Remove(index)
InternalRemove(p, index) == RemoveAt(p, index)

\* HeaderPage: a sequence of records, empty on a zeroed page; the record of
\* this index is the only one
HeaderRecord(root_page_id) == [root_id |-> root_page_id]
\* HeaderPage::InsertRecord: a record is added unless the name has one
InsertRecord(h, root_page_id) == IF h = <<>> THEN <<HeaderRecord(root_page_id)>> ELSE h
\* HeaderPage::UpdateRecord: the record of the name, if there is one, is changed
UpdateRecord(h, root_page_id) == IF h = <<>> THEN h ELSE <<HeaderRecord(root_page_id)>>
\* HeaderPage::GetRootId
GetRootId(h) == IF h = <<>> THEN INVALID_PAGE_ID ELSE h[1].root_id

\* --------------------------------------------- the tree's view of the pool
\* m is the state an operation works on: the pool (b), root_page_id_, the
\* page latches, the threads, and whether a null Page* was dereferenced.
\* A Page* is the number of its frame.
Machine ==
  [b |-> Pool, root |-> root_page_id_, leaf_max |-> leaf_max_size_,
   internal_max |-> internal_max_size_, latch |-> latch, th |-> th,
   fault |-> FALSE, blocked |-> FALSE]

PoolOf(r) ==
  [pages |-> r.pages, page_table |-> r.page_table, free_list |-> r.free_list,
   list |-> r.list, map |-> r.map, next_page_id |-> r.next_page_id, disk |-> r.disk]

\* Page::GetData
PageAt(m, page) == m.b.pages[page].data_
SetPage(m, page, p) == [m EXCEPT !.b.pages[page].data_ = p]
PageIdOf(m, page) == m.b.pages[page].page_id_

\* node->SetParentPageId(...) / leaf->SetNextPageId(...) / page->SetKeyAt(...)
\* on the page held in a frame
SetParentOf(m, page, parent_page_id) ==
  SetPage(m, page, SetParentPageId(PageAt(m, page), parent_page_id))
SetNextOf(m, page, next_page_id) ==
  SetPage(m, page, SetNextPageId(PageAt(m, page), next_page_id))
SetKeyOf(m, page, index, key) ==
  SetPage(m, page, SetKeyAt(PageAt(m, page), index, key))

\* buffer_pool_manager_->FetchPage / NewPage / UnpinPage / DeletePage
BpmFetchPage(m, page_id) ==
  LET Fetched(r) == [m |-> [m EXCEPT !.b = PoolOf(r)], page |-> r.frame]
  IN  Fetched(FetchPageImpl(m.b, page_id))

BpmNewPage(m) ==
  LET Made(r) == [m |-> [m EXCEPT !.b = PoolOf(r)], page |-> r.frame, page_id |-> r.page_id]
  IN  Made(NewPageImpl(m.b))

BpmUnpinPage(m, page_id, is_dirty) ==
  [m EXCEPT !.b = PoolOf(UnpinPageImpl(m.b, page_id, is_dirty))]

BpmDeletePage(m, page_id) ==
  [m EXCEPT !.b = PoolOf(DeletePageImpl(m.b, page_id))]

\* a null Page* is used, or memory is read as a page that it does not hold
Fault(m) == [m EXCEPT !.fault = TRUE]

\* the children moved to another internal page get their new parent:
\* fetch the child, SetParentPageId, unpin it dirty
RECURSIVE Reparent(_, _, _)
ReparentFetched(r, children, parent_page_id) ==
  IF r.page = NoFrame THEN Fault(r.m)
  ELSE Reparent(BpmUnpinPage(SetParentOf(r.m, r.page, parent_page_id), Head(children), TRUE),
                Tail(children), parent_page_id)

Reparent(m, children, parent_page_id) ==
  IF children = <<>> \/ m.fault THEN m
  ELSE ReparentFetched(BpmFetchPage(m, Head(children)), children, parent_page_id)

ChildrenOf(entries) == [i \in 1 .. Len(entries) |-> entries[i].value]

\* the recipient takes pairs at its end (CopyNFrom / CopyLastFrom) or at its
\* front (CopyFirstFrom); an internal recipient becomes the parent of the
\* children that came with them
TakeLast(m, recipient, pairs) ==
  SetPage(m, recipient, AppendAll(PageAt(m, recipient), pairs))
TakeFirst(m, recipient, pair) ==
  SetPage(m, recipient, InsertAt(PageAt(m, recipient), 0, pair))
Adopt(m, recipient, pairs) ==
  Reparent(m, ChildrenOf(pairs), PageAt(m, recipient).page_id)

\* BPlusTreeLeafPage::MoveHalfTo: the upper half goes to the recipient
LeafMoveHalfTo(m, lp, recipient) ==
  LET p == PageAt(m, lp)
      keep == GetSize(p) \div 2
  IN  TakeLast(SetPage(m, lp, Truncate(p, keep)), recipient,
               SubSeq(p.array, keep + 1, GetSize(p)))

\* BPlusTreeInternalPage::MoveHalfTo
InternalMoveHalfTo(m, ip, recipient) ==
  LET p == PageAt(m, ip)
      keep == GetSize(p) \div 2
      moved == SubSeq(p.array, keep + 1, GetSize(p))
  IN  Adopt(TakeLast(SetPage(m, ip, Truncate(p, keep)), recipient, moved), recipient, moved)

\* BPlusTreeLeafPage::MoveAllTo
LeafMoveAllTo(m, lp, recipient) ==
  TakeLast(SetPage(m, lp, Truncate(PageAt(m, lp), 0)), recipient, PageAt(m, lp).array)

\* BPlusTreeInternalPage::MoveAllTo: the parent's separator becomes the key
\* of the first pair moved
InternalMoveAllTo(m, ip, recipient, middle_key) ==
  LET p == SetKeyAt(PageAt(m, ip), 0, middle_key)
  IN  Adopt(TakeLast(SetPage(m, ip, Truncate(p, 0)), recipient, p.array), recipient, p.array)

\* BPlusTreeLeafPage::MoveFirstToEndOf / MoveLastToFrontOf
LeafMoveFirstToEndOf(m, lp, recipient) ==
  LET p == PageAt(m, lp)
  IN  TakeLast(SetPage(m, lp, RemoveAt(p, 0)), recipient, <<Head(p.array)>>)

LeafMoveLastToFrontOf(m, lp, recipient) ==
  LET p == PageAt(m, lp)
      n == GetSize(p)
  IN  TakeFirst(SetPage(m, lp, Truncate(p, n - 1)), recipient, p.array[n])

\* BPlusTreeInternalPage::MoveFirstToEndOf: the pair appended carries
\* middle_key
InternalMoveFirstToEndOf(m, ip, recipient, middle_key) ==
  LET p == PageAt(m, ip)
      pair == [key |-> middle_key, value |-> ValueAt(p, 0)]
  IN  Adopt(TakeLast(SetPage(m, ip, RemoveAt(p, 0)), recipient, <<pair>>), recipient, <<pair>>)

\* BPlusTreeInternalPage::MoveLastToFrontOf: the recipient's old first pair
\* gets middle_key
InternalMoveLastToFrontOf(m, ip, recipient, middle_key) ==
  LET p == PageAt(m, ip)
      n == GetSize(p)
      pair == p.array[n]
  IN  Adopt(TakeFirst(SetKeyOf(SetPage(m, ip, Truncate(p, n - 1)), recipient, 0, middle_key),
                      recipient, pair),
            recipient, <<pair>>)

\* ----------------------------------------------------------------- latches
\* Page::RLatch / WLatch / RUnlatch / WUnlatch on the frame's rwlatch_.  A
\* latch that cannot be taken now blocks the step: m.blocked is set and the
\* step does not happen.
FreeLatch == [w |-> 0, r |-> {}]

RLatch(m, page, t) ==
  IF m.latch[page].w = 0
    THEN [m EXCEPT !.latch[page].r = @ \cup {t}]
    ELSE [m EXCEPT !.blocked = TRUE]

WLatch(m, page, t) ==
  IF m.latch[page].w = 0 /\ m.latch[page].r = {}
    THEN [m EXCEPT !.latch[page].w = t]
    ELSE [m EXCEPT !.blocked = TRUE]

RUnlatch(m, page, t) == [m EXCEPT !.latch[page].r = @ \ {t}]
WUnlatch(m, page, t) == [m EXCEPT !.latch[page].w = 0]

\* ----------------------------------------------------------------- threads
\* One thread runs one operation at a time with its own Transaction.
\*   page_set, deleted   Transaction::GetPageSet / GetDeletedPageSet
\*   page                the Page* FindLeafPageWithLock is at
\*   old_node, new_node, up_key   the arguments of the next InsertIntoParent
\*   unpins              the new pages of the Splits that are not yet unpinned
\*   node                the argument of the next CoalesceOrRedistribute
\*   stack               the callers of CoalesceOrRedistribute still to return
Idle ==
  [op |-> "none", key |-> NoKey, value |-> 0, pc |-> "idle",
   page_set |-> <<>>, deleted |-> <<>>, page |-> NoFrame,
   old_node |-> NoFrame, new_node |-> NoFrame, up_key |-> NoKey, unpins |-> <<>>,
   node |-> NoFrame, stack |-> <<>>, found |-> FALSE, result |-> 0]

\* a call of GetValue / Insert / Remove enters the method
Call(m, t, op, key, value) ==
  [m EXCEPT !.th[t] = [Idle EXCEPT !.op = op, !.key = key, !.value = value, !.pc = "begin"]]

\* the method returns
Return(m, t, found, result) ==
  [m EXCEPT !.th[t].pc = "done", !.th[t].found = found, !.th[t].result = result,
            !.th[t].key = NoKey, !.th[t].value = 0, !.th[t].page = NoFrame, !.th[t].old_node = NoFrame, !.th[t].new_node = NoFrame,
            !.th[t].up_key = NoKey, !.th[t].node = NoFrame]

\* an Exception leaves the method
Throw(m, t) == [m EXCEPT !.th[t].pc = "threw"]

AddIntoPageSet(m, t, page) == [m EXCEPT !.th[t].page_set = Append(@, page)]
AddIntoDeletedPageSet(m, t, page_id) ==
  [m EXCEPT !.th[t].deleted = IF page_id \in Elems(@) THEN @ ELSE Append(@, page_id)]

RECURSIVE ReleasePages(_, _, _, _)
ReleasePages(m, t, op, pages) ==
  IF pages = <<>> THEN m
  ELSE LET page == Head(pages)
           page_id == PageIdOf(m, page)
       IN  ReleasePages(BpmUnpinPage(IF op = "GetValue" THEN RUnlatch(m, page, t)
                                     ELSE WUnlatch(m, page, t),
                                     page_id, op # "GetValue"),
                        t, op, Tail(pages))

RECURSIVE DeletePages(_, _)
DeletePages(m, page_ids) ==
  IF page_ids = <<>> THEN m
  ELSE DeletePages(BpmDeletePage(m, Head(page_ids)), Tail(page_ids))

\* BPlusTree::ReleaseAndUnpin: unlatch and unpin the page set in order, then
\* delete the pages of the deleted set (taken in the order they were added)
ReleaseAndUnpin(m, t, op) ==
  [DeletePages(ReleasePages(m, t, op, m.th[t].page_set), m.th[t].deleted)
     EXCEPT !.th[t].page_set = <<>>, !.th[t].deleted = <<>>]

\* faulty variant: a page that an insertion fills is judged safe
IsSafe_Full(p, op) ==
  IF op = "Insert" THEN GetSize(p) < GetMaxSize(p)
  ELSE GetSize(p) > GetMinSize(p)

\* faulty variant: a page at its minimum size is judged safe for a removal
IsSafe_AtMin(p, op) ==
  IF op = "Insert" THEN GetSize(p) < GetMaxSize(p) - 1
  ELSE GetSize(p) >= GetMinSize(p)

\* BPlusTree::IsSafe
IsSafe(p, op) ==
  IF op = "Insert" THEN GetSize(p) < GetMaxSize(p) - 1
  ELSE GetSize(p) > GetMinSize(p)

\* BPlusTree::UpdateRootPageId: InsertRecord / UpdateRecord of the header page
UpdateRootPageIdFetched(r, insert_record) ==
  IF r.page = NoFrame THEN Fault(r.m)
  ELSE BpmUnpinPage(SetPage(r.m, r.page,
                             IF insert_record # 0
                               THEN InsertRecord(PageAt(r.m, r.page), r.m.root)
                               ELSE UpdateRecord(PageAt(r.m, r.page), r.m.root)),
                     HEADER_PAGE_ID, TRUE)

UpdateRootPageId(m, insert_record) ==
  UpdateRootPageIdFetched(BpmFetchPage(m, HEADER_PAGE_ID), insert_record)

\* BPlusTree::InitBPlusTreePage with SetPageId
InitBPlusTreePage(m, page_type, page_id, parent_page_id) ==
  TreePage(page_type, page_id, parent_page_id,
           IF page_type = "INTERNAL" THEN m.internal_max ELSE m.leaf_max)

\* BPlusTree::StartNewTree: after NewPage, and the method
StartNewTreeMade(r, t, key, value) ==
  IF r.page = NoFrame THEN Throw(r.m, t)
  ELSE LET lp == LeafInsert(
                   SetNextPageId(InitBPlusTreePage(r.m, "LEAF", r.page_id, INVALID_PAGE_ID),
                                 INVALID_PAGE_ID),
                   key, value)
       IN  UpdateRootPageId(
             [BpmUnpinPage(SetPage(r.m, r.page, lp), r.page_id, TRUE)
                EXCEPT !.root = r.page_id],
             1)

StartNewTree(m, t, key, value) == StartNewTreeMade(BpmNewPage(m), t, key, value)

\* Split after NewPage: InitBPlusTreePage on the new page
SplitMade(r, node, parent_page_id) ==
  IF r.page = NoFrame THEN [m |-> r.m, page |-> NoFrame]
  ELSE [m |-> SetPage(r.m, r.page,
                      InitBPlusTreePage(r.m, IF IsLeafPage(PageAt(r.m, node)) THEN "LEAF"
                                             ELSE "INTERNAL",
                                        r.page_id, parent_page_id)),
        page |-> r.page]

\* faulty variant: the new page does not get the parent of the page split
Split_NoParent(m, node) ==
  SplitMade(BpmNewPage(m), node, INVALID_PAGE_ID)

\* BPlusTree::Split: the new page, NoFrame when NewPage returned null (the
\* method throws)
Split(m, node) ==
  SplitMade(BpmNewPage(m), node, PageAt(m, node).parent_page_id)

\* FindLeafPageWithLock after a FetchPage; its first lines:
\* FetchPage(root_page_id_)
FindLeafPageWithLockFetched(r, t, pc) ==
  IF r.page = NoFrame THEN Fault(r.m)
  ELSE [r.m EXCEPT !.th[t].page = r.page, !.th[t].pc = pc]

FindLeafPageWithLockEnter(m, t) ==
  FindLeafPageWithLockFetched(BpmFetchPage(m, m.root), t, "descend")

\* Insert on an empty tree, after StartNewTree
EnterStarted(m, t, guard) ==
  IF m.th[t].pc = "threw" \/ m.fault THEN m
  ELSE Return(WUnlatch(m, guard, t), t, TRUE, 0)

\* the guard page is latched (or the thread waits for it)
EnterLatched(m, t, guard) ==
  LET c == m.th[t]
  IN  IF m.blocked THEN m
      ELSE IF m.root = INVALID_PAGE_ID
        THEN CASE c.op = "GetValue" -> Return(RUnlatch(m, guard, t), t, FALSE, 0)
               [] c.op = "Insert" -> EnterStarted(StartNewTree(m, t, c.key, c.value), t, guard)
               [] OTHER -> Return(WUnlatch(m, guard, t), t, FALSE, 0)
        ELSE FindLeafPageWithLockEnter(AddIntoPageSet(m, t, guard), t)

EnterFetched(r, t) ==
  IF r.page = NoFrame THEN Fault(r.m)
  ELSE EnterLatched(IF r.m.th[t].op = "GetValue" THEN RLatch(r.m, r.page, t)
                    ELSE WLatch(r.m, r.page, t),
                    t, r.page)

\* GetValue / Insert / Remove up to the call of FindLeafPageWithLock: fetch
\* and latch the guard page, and the whole call on an empty tree
Enter(m, t) == EnterFetched(BpmFetchPage(m, guard_page_id), t)

\* FindLeafPageWithLock with the page latched and added to the page set: go
\* to the child, or the leaf is reached
FindLeafPageWithLockAdded(m, t, isLeaf, child) ==
  IF isLeaf THEN [m EXCEPT !.th[t].pc = "leaf"]
  ELSE FindLeafPageWithLockFetched(BpmFetchPage(m, child), t, "descend")

\* one round of the loop of FindLeafPageWithLock, or its lines after the
\* loop: latch the page, release the ancestors (a reader always, a writer
\* when the page is safe), add the page to the page set, go to the child
FindLeafPageWithLockLatched(m, t) ==
  LET c == m.th[t]
      bptp == PageAt(m, c.page)
  IN  IF m.blocked THEN m
      ELSE FindLeafPageWithLockAdded(
             AddIntoPageSet(IF c.op = "GetValue" \/ IsSafe(bptp, c.op)
                              THEN ReleaseAndUnpin(m, t, c.op) ELSE m,
                            t, c.page),
             t, IsLeafPage(bptp),
             IF IsLeafPage(bptp) THEN INVALID_PAGE_ID ELSE InternalLookup(bptp, c.key))

FindLeafPageWithLockStep(m, t) ==
  FindLeafPageWithLockLatched(
    IF m.th[t].op = "GetValue" THEN RLatch(m, m.th[t].page, t)
    ELSE WLatch(m, m.th[t].page, t),
    t)

\* GetValue after FindLeafPageWithLock
GetValueAtLeaf(m, t) ==
  LET c == m.th[t]
      l == LeafLookup(PageAt(m, c.page), c.key)
  IN  Return(ReleaseAndUnpin(m, t, "GetValue"), t, l.found, l.value)

\* the new pages of the Splits are unpinned, innermost call first, then
\* InsertIntoLeaf releases and returns true
RECURSIVE UnpinNewPages(_, _)
UnpinNewPages(m, unpins) ==
  IF unpins = <<>> THEN m
  ELSE UnpinNewPages(BpmUnpinPage(m, unpins[Len(unpins)], TRUE),
                     SubSeq(unpins, 1, Len(unpins) - 1))

InsertReturn(m, t) ==
  Return(ReleaseAndUnpin([UnpinNewPages(m, m.th[t].unpins) EXCEPT !.th[t].unpins = <<>>],
                         t, "Insert"),
         t, TRUE, 0)

\* InsertIntoLeaf, lines 159-164: the pairs are moved, the new leaf is
\* linked behind the old one, and InsertIntoParent is called
InsertIntoLeafLinked(m, t, page, new_page) ==
  [m EXCEPT !.th[t].old_node = page,
            !.th[t].new_node = new_page,
            !.th[t].up_key = KeyAt(PageAt(m, new_page), 0),
            !.th[t].unpins = <<PageAt(m, new_page).page_id>>,
            !.th[t].pc = "parent"]

InsertIntoLeafNewLinked(m, t, page, new_page) ==
  InsertIntoLeafLinked(SetNextOf(m, page, PageAt(m, new_page).page_id), t, page, new_page)

InsertIntoLeafMoved(m, t, page, new_page) ==
  InsertIntoLeafNewLinked(SetNextOf(m, new_page, PageAt(m, page).next_page_id),
                          t, page, new_page)

InsertIntoLeafSplit(s, t, page) ==
  IF s.page = NoFrame THEN Throw(s.m, t)
  ELSE InsertIntoLeafMoved(LeafMoveHalfTo(s.m, page, s.page), t, page, s.page)

\* faulty variant: the leaf splits only when its size exceeds max_size
InsertIntoLeafInserted_Late(m, t, page) ==
  IF GetSize(PageAt(m, page)) > GetMaxSize(PageAt(m, page))
    THEN InsertIntoLeafSplit(Split(m, page), t, page)
    ELSE Return(ReleaseAndUnpin(m, t, "Insert"), t, TRUE, 0)

\* InsertIntoLeaf, lines 157-169: the pair is in the leaf
InsertIntoLeafInserted(m, t, page) ==
  IF GetSize(PageAt(m, page)) = GetMaxSize(PageAt(m, page))
    THEN InsertIntoLeafSplit(Split(m, page), t, page)
    ELSE Return(ReleaseAndUnpin(m, t, "Insert"), t, TRUE, 0)

\* InsertIntoLeaf after FindLeafPageWithLock, up to the call of
\* InsertIntoParent
InsertIntoLeaf(m, t) ==
  LET c == m.th[t]
      page == c.page
      lp == PageAt(m, page)
  IN  IF PageIdOf(m, page) = 0 THEN Fault(m)
      ELSE IF LeafLookup(lp, c.key).found
        THEN Return(ReleaseAndUnpin(m, t, "Insert"), t, FALSE, 0)
        ELSE InsertIntoLeafInserted(SetPage(m, page, LeafInsert(lp, c.key, c.value)), t, page)

\* InsertIntoParent, lines 206-217: the page split was the root
InsertIntoParentSaved(m, t) == IF m.fault THEN m ELSE InsertReturn(m, t)

InsertIntoParentNewParent(m, t) ==
  InsertIntoParentSaved(UpdateRootPageId(BpmUnpinPage(m, m.root, TRUE), 0), t)

InsertIntoParentOldParent(m, t) ==
  InsertIntoParentNewParent(SetParentOf(m, m.th[t].new_node, m.root), t)

InsertIntoParentPopulated(m, t) ==
  InsertIntoParentOldParent(SetParentOf(m, m.th[t].old_node, m.root), t)

InsertIntoParentRooted(m, t, page, page_id) ==
  LET c == m.th[t]
  IN  InsertIntoParentPopulated(
        SetPage(m, page,
                PopulateNewRoot(InitBPlusTreePage(m, "INTERNAL", page_id, INVALID_PAGE_ID),
                                PageAt(m, c.old_node).page_id, c.up_key,
                                PageAt(m, c.new_node).page_id)),
        t)

InsertIntoParentMade(r, t) ==
  IF r.page = NoFrame THEN Fault(r.m)
  ELSE InsertIntoParentRooted([r.m EXCEPT !.root = r.page_id], t, r.page, r.page_id)

\* InsertIntoParent, lines 219-232: the entry goes into the parent, which
\* may split
InsertIntoParentMoved(m, t, parent, new_page) ==
  LET new_ip == PageAt(m, new_page)
  IN  [m EXCEPT !.th[t].old_node = parent,
                !.th[t].new_node = new_page,
                !.th[t].up_key = KeyAt(new_ip, 0),
                !.th[t].unpins = Append(@, new_ip.page_id)]

InsertIntoParentSplit(s, t, parent) ==
  IF s.page = NoFrame THEN Throw(s.m, t)
  ELSE InsertIntoParentMoved(InternalMoveHalfTo(s.m, parent, s.page), t, parent, s.page)

InsertIntoParentInserted(m, t, parent) ==
  IF GetSize(PageAt(m, parent)) > GetMaxSize(PageAt(m, parent))
    THEN InsertIntoParentSplit(Split(m, parent), t, parent)
    ELSE InsertReturn(m, t)

InsertIntoParentFetched(r, t) ==
  LET c == r.m.th[t]
  IN  IF r.page = NoFrame THEN Fault(r.m)
      ELSE InsertIntoParentInserted(
             SetPage(r.m, r.page,
                     InsertNodeAfter(PageAt(r.m, r.page), PageAt(r.m, c.old_node).page_id,
                                     c.up_key, PageAt(r.m, c.new_node).page_id)),
             t, r.page)

\* one call of InsertIntoParent(old_node, key, new_node); a split of the
\* parent leaves the arguments of the next call
InsertIntoParent(m, t) ==
  LET parent_page_id == PageAt(m, m.th[t].old_node).parent_page_id
  IN  IF parent_page_id = INVALID_PAGE_ID
        THEN InsertIntoParentMade(BpmNewPage(m), t)
        ELSE InsertIntoParentFetched(BpmFetchPage(m, parent_page_id), t)

\* AdjustRoot, lines 490-495: the only child is the new root
AdjustRootFetched(r, child) ==
  IF r.page = NoFrame THEN [m |-> Fault(r.m), flag |-> TRUE]
  ELSE [m |-> UpdateRootPageId(
                BpmUnpinPage(SetParentOf(r.m, r.page, INVALID_PAGE_ID), child, TRUE), 0),
        flag |-> TRUE]

\* BPlusTree::AdjustRoot: the state after it and the value it returns
AdjustRoot(m, old_root_node) ==
  LET p == PageAt(m, old_root_node)
  IN  IF IsLeafPage(p) /\ GetSize(p) = 0
        THEN [m |-> UpdateRootPageId([m EXCEPT !.root = INVALID_PAGE_ID], 0), flag |-> TRUE]
      ELSE IF ~IsLeafPage(p) /\ GetSize(p) = 1
        THEN AdjustRootFetched(
               BpmFetchPage([SetPage(m, old_root_node, Truncate(p, 0))
                               EXCEPT !.root = ValueAt(p, 0)],
                            ValueAt(p, 0)),
               ValueAt(p, 0))
      ELSE [m |-> m, flag |-> FALSE]

\* BPlusTree::IsCoalesce
IsCoalesce(lhs, rhs) == GetSize(lhs) + GetSize(rhs) < GetMaxSize(lhs)

\* the callers of CoalesceOrRedistribute that called Coalesce return,
\* innermost first: unlatch the sibling, unpin it and the parent; then
\* Remove releases and returns
RECURSIVE ReturnFromCoalesce(_, _, _)
ReturnFromCoalesce(m, t, stack) ==
  IF stack = <<>> THEN m
  ELSE LET e == stack[Len(stack)]
       IN  ReturnFromCoalesce(
             BpmUnpinPage(BpmUnpinPage(WUnlatch(m, e.sib, t), e.sib_id, TRUE),
                          e.parent_id, TRUE),
             t, SubSeq(stack, 1, Len(stack) - 1))

RemoveReturn(m, t) ==
  Return(ReleaseAndUnpin([ReturnFromCoalesce(m, t, m.th[t].stack) EXCEPT !.th[t].stack = <<>>],
                         t, "Remove"),
         t, FALSE, 0)

\* Coalesce, lines 412-424: an underflow of the parent is the next
\* CoalesceOrRedistribute
CoalesceCalled(m, t, parent) ==
  IF m.fault THEN m
  ELSE IF GetSize(PageAt(m, parent)) < GetMinSize(PageAt(m, parent))
    THEN [m EXCEPT !.th[t].node = parent]
    ELSE RemoveReturn(m, t)

\* Coalesce, lines 410-411: the page emptied is to be deleted and its entry
\* leaves the parent
CoalesceMoved(m, t, page_id, parent, index, caller) ==
  CoalesceCalled(
    [SetPage(AddIntoDeletedPageSet(m, t, page_id), parent,
             InternalRemove(PageAt(m, parent), index))
       EXCEPT !.th[t].stack = Append(@, caller)],
    t, parent)

\* faulty variant: the leaf that takes the pairs keeps its next_page_id
Coalesce_KeepNext(m, t, neighbor_node, node, parent, index, caller) ==
  CoalesceMoved(
    IF IsLeafPage(PageAt(m, node))
      THEN LeafMoveAllTo(m, node, neighbor_node)
      ELSE InternalMoveAllTo(m, node, neighbor_node, KeyAt(PageAt(m, parent), index)),
    t, PageAt(m, node).page_id, parent, index, caller)

\* BPlusTree::Coalesce: node is emptied into neighbor_node and its entry
\* leaves the parent
Coalesce(m, t, neighbor_node, node, parent, index, caller) ==
  CoalesceMoved(
    IF IsLeafPage(PageAt(m, node))
      THEN SetNextOf(LeafMoveAllTo(m, node, neighbor_node), neighbor_node,
                     PageAt(m, node).next_page_id)
      ELSE InternalMoveAllTo(m, node, neighbor_node, KeyAt(PageAt(m, parent), index)),
    t, PageAt(m, node).page_id, parent, index, caller)

\* CoalesceOrRedistribute, lines 336-383: no sibling coalesces, one pair
\* moves over from the left sibling if there is one, else from the right one
\* (whose pin is given back with UnpinPage(right_sib_index, true))
RedistributeDone(m, t, parent_id) ==
  IF m.fault THEN m ELSE RemoveReturn(BpmUnpinPage(m, parent_id, TRUE), t)

RedistributeGiven(m, t, sib_page, unpin_id, parent_id) ==
  RedistributeDone(BpmUnpinPage(WUnlatch(m, sib_page, t), unpin_id, TRUE), t, parent_id)

\* lines 339-358: the left sibling gives its last pair
RedistributeFromLeft(m, t, node, parent, parent_id, index, sib_page, left_sib_id) ==
  LET pp == PageAt(m, parent)
      sib == PageAt(m, sib_page)
      up == SetKeyAt(pp, index, KeyAt(sib, GetSize(sib) - 1))
  IN  IF m.blocked THEN m
      ELSE RedistributeGiven(
             IF IsLeafPage(PageAt(m, node))
               THEN LeafMoveLastToFrontOf(SetPage(m, parent, up), sib_page, node)
               ELSE InternalMoveLastToFrontOf(
                      SetPage(SetKeyOf(m, node, 0, KeyAt(pp, index)), parent, up),
                      sib_page, node, KeyAt(pp, index)),
             t, sib_page, left_sib_id, parent_id)

RedistributeLeftFetched(r, t, node, parent, parent_id, index, left_sib_id) ==
  IF r.page = NoFrame THEN Fault(r.m)
  ELSE RedistributeFromLeft(WLatch(r.m, r.page, t), t, node, parent, parent_id, index,
                            r.page, left_sib_id)

\* lines 359-381: the right sibling gives its first pair
RedistributeFromRight(m, t, node, parent, parent_id, index, sib_page) ==
  LET pp == PageAt(m, parent)
      sib == PageAt(m, sib_page)
      right_sib_index == index + 1
      up == SetKeyAt(pp, right_sib_index, KeyAt(sib, 1))
  IN  IF m.blocked THEN m
      ELSE IF GetSize(sib) < 1 \/ sib.page_type # PageAt(m, node).page_type
        THEN Fault(m)
      ELSE RedistributeGiven(
             IF IsLeafPage(PageAt(m, node))
               THEN LeafMoveFirstToEndOf(SetPage(m, parent, up), sib_page, node)
               ELSE InternalMoveFirstToEndOf(
                      SetPage(SetKeyOf(m, sib_page, 0, KeyAt(pp, right_sib_index)), parent, up),
                      sib_page, node, KeyAt(pp, right_sib_index)),
             t, sib_page, right_sib_index, parent_id)

RedistributeRightFetched(r, t, node, parent, parent_id, index) ==
  IF r.page = NoFrame THEN Fault(r.m)
  ELSE RedistributeFromRight(WLatch(r.m, r.page, t), t, node, parent, parent_id, index, r.page)

RedistributeWithSibling(m, t, node, parent, parent_id, index) ==
  LET pp == PageAt(m, parent)
  IN  IF index - 1 >= 0
        THEN RedistributeLeftFetched(BpmFetchPage(m, ValueAt(pp, index - 1)), t, node, parent,
                                     parent_id, index, ValueAt(pp, index - 1))
      ELSE IF ~HasSlot(pp, index + 1) THEN Fault(m)
      ELSE RedistributeRightFetched(BpmFetchPage(m, ValueAt(pp, index + 1)), t, node, parent,
                                    parent_id, index)

\* CoalesceOrRedistribute, lines 314-334: the right sibling, if any, is
\* emptied into node when both fit in one page
CoalesceWithRightLatched(m, t, node, parent, parent_id, index, sib_page, right_sib_id) ==
  IF m.blocked THEN m
  ELSE IF IsCoalesce(PageAt(m, node), PageAt(m, sib_page))
    THEN Coalesce(m, t, node, sib_page, parent, index + 1,
                  [sib |-> sib_page, sib_id |-> right_sib_id, parent_id |-> parent_id])
    ELSE RedistributeWithSibling(
           BpmUnpinPage(WUnlatch(m, sib_page, t), right_sib_id, FALSE),
           t, node, parent, parent_id, index)

CoalesceWithRightFetched(r, t, node, parent, parent_id, index, right_sib_id) ==
  IF r.page = NoFrame THEN Fault(r.m)
  ELSE CoalesceWithRightLatched(WLatch(r.m, r.page, t), t, node, parent, parent_id, index,
                                r.page, right_sib_id)

CoalesceWithRight(m, t, node, parent, parent_id, index) ==
  LET pp == PageAt(m, parent)
  IN  IF index + 1 < GetSize(pp)
        THEN CoalesceWithRightFetched(BpmFetchPage(m, ValueAt(pp, index + 1)), t, node, parent,
                                      parent_id, index, ValueAt(pp, index + 1))
        ELSE RedistributeWithSibling(m, t, node, parent, parent_id, index)

\* CoalesceOrRedistribute, lines 283-291: node is the root
CoalesceOrRedistributeAdjusted(a, t, page_id) ==
  IF a.m.fault THEN a.m
  ELSE RemoveReturn(IF a.flag THEN AddIntoDeletedPageSet(a.m, t, page_id) ELSE a.m, t)

\* CoalesceOrRedistribute, lines 300-313: the left sibling, if any, takes
\* the pairs of node when both fit in one page
CoalesceWithLeftLatched(m, t, node, parent, parent_id, index, sib_page, left_sib_id) ==
  IF m.blocked THEN m
  ELSE IF IsCoalesce(PageAt(m, node), PageAt(m, sib_page))
    THEN Coalesce(m, t, sib_page, node, parent, index,
                  [sib |-> sib_page, sib_id |-> left_sib_id, parent_id |-> parent_id])
    ELSE CoalesceWithRight(
           BpmUnpinPage(WUnlatch(m, sib_page, t), left_sib_id, FALSE),
           t, node, parent, parent_id, index)

CoalesceWithLeftFetched(l, t, node, parent, parent_id, index, left_sib_id) ==
  IF l.page = NoFrame THEN Fault(l.m)
  ELSE CoalesceWithLeftLatched(WLatch(l.m, l.page, t), t, node, parent, parent_id, index,
                               l.page, left_sib_id)

\* CoalesceOrRedistribute, lines 293-299: the parent is fetched and the
\* index of node in it is looked up
CoalesceOrRedistributeFetched(r, t, node, parent_id) ==
  LET pp == PageAt(r.m, r.page)
      index == ValueIndex(pp, PageAt(r.m, node).page_id)
  IN  IF r.page = NoFrame THEN Fault(r.m)
      ELSE IF index < 0 THEN Fault(r.m)
      ELSE IF index - 1 >= 0
        THEN CoalesceWithLeftFetched(BpmFetchPage(r.m, ValueAt(pp, index - 1)), t, node,
                                     r.page, parent_id, index, ValueAt(pp, index - 1))
        ELSE CoalesceWithRight(r.m, t, node, r.page, parent_id, index)

\* one call of CoalesceOrRedistribute(node)
CoalesceOrRedistribute(m, t) ==
  LET node == m.th[t].node
      bptp == PageAt(m, node)
  IN  IF IsRootPage(bptp)
        THEN CoalesceOrRedistributeAdjusted(AdjustRoot(m, node), t, bptp.page_id)
        ELSE CoalesceOrRedistributeFetched(BpmFetchPage(m, bptp.parent_page_id), t, node,
                                           bptp.parent_page_id)

\* Remove after FindLeafPageWithLock, up to the call of CoalesceOrRedistribute
RemoveAtLeaf(m, t) ==
  LET c == m.th[t]
      lp == PageAt(m, c.page)
      lp1 == RemoveAndDeleteRecord(lp, c.key)
      m1 == SetPage(m, c.page, lp1)
  IN  IF GetSize(lp) = GetSize(lp1)
        THEN Return(ReleaseAndUnpin(m, t, "Remove"), t, FALSE, 0)
      ELSE IF GetSize(lp1) < GetMinSize(lp1)
        THEN [m1 EXCEPT !.th[t].node = c.page, !.th[t].pc = "rebalance"]
      ELSE Return(ReleaseAndUnpin(m1, t, "Remove"), t, FALSE, 0)

\* ------------------------------------------------------- steps of a thread
\* The next step of thread t: from one latch request to the next.
Step(m, t) ==
  LET c == m.th[t]
  IN  CASE c.pc = "begin" -> Enter(m, t)
        [] c.pc = "descend" -> FindLeafPageWithLockStep(m, t)
        [] c.pc = "leaf" /\ c.op = "GetValue" -> GetValueAtLeaf(m, t)
        [] c.pc = "leaf" /\ c.op = "Insert" -> InsertIntoLeaf(m, t)
        [] c.pc = "leaf" /\ c.op = "Remove" -> RemoveAtLeaf(m, t)
        [] c.pc = "parent" -> InsertIntoParent(m, t)
        [] c.pc = "rebalance" -> CoalesceOrRedistribute(m, t)
        [] OTHER -> m

Running(m, t) == m.th[t].pc \in {"begin", "descend", "leaf", "parent", "rebalance"}

\* a call that runs with no other thread: its steps up to the return
RECURSIVE Run(_, _)
Run(m, t) ==
  IF ~Running(m, t) \/ m.fault \/ m.blocked THEN m
  ELSE Run(Step(m, t), t)

\* --------------------------------------------------- the tree on its own
\* The index is used as its callers use it: the pool has a frame for every
\* page, and the owner of the index has allocated the header page (page 0,
\* which it keeps pinned and which holds no record) before the tree is
\* constructed.
NoTreeCall ==
  [op |-> "none", found |-> FALSE, result |-> 0, was |-> 0, status |-> "done"]

TreePool ==
  LET r == NewPageImpl(
             [pages |-> [f \in 0 .. (MaxTreePageId - 1) |-> FreshPage(INVALID_PAGE_ID, 0)],
              page_table |-> EmptyMap, free_list |-> Iota(0, MaxTreePageId),
              list |-> <<>>, map |-> {}, next_page_id |-> 0,
              disk |-> [p \in TreePageIds |-> 0]])
  IN  [r EXCEPT !.pages[r.frame].data_ = <<>>]

\* BPlusTree(name, bpm, comparator, leaf_max_size, internal_max_size)
TreeConstructed(leaf_max_size, internal_max_size) ==
  /\ pool_size_ = MaxTreePageId
  /\ pages_ = TreePool.pages
  /\ page_table_ = TreePool.page_table
  /\ free_list_ = TreePool.free_list
  /\ unpin_list_ = TreePool.list
  /\ unpin_map_ = TreePool.map
  /\ next_page_id_ = TreePool.next_page_id
  /\ disk = TreePool.disk
  /\ root_page_id_ = INVALID_PAGE_ID
  /\ leaf_max_size_ = leaf_max_size
  /\ internal_max_size_ = internal_max_size
  /\ latch = [f \in 0 .. (MaxTreePageId - 1) |-> FreeLatch]
  /\ th = [t \in Threads |-> Idle]
  /\ present = [k \in Keys |-> 0]
  /\ inserted = [k \in Keys |-> 0]
  /\ tret = NoTreeCall
  /\ conc = <<>>
  /\ iter = NoIterator
  /\ ret = NoCall
  /\ new_ids = {}
  /\ pins = [p \in PageIds |-> 0]
  /\ watched = INVALID_PAGE_ID
  /\ last_written = {}
  /\ unreleased = FALSE
  /\ lru_order = <<>>
  /\ s1 = S1Off
  /\ s2 = S2Off

InitTree ==
  \E l \in 2 .. MaxLeafSize, i \in 3 .. MaxInternalSize : TreeConstructed(l, i)

CommitTree(m) ==
  /\ Commit(m.b)
  /\ root_page_id_' = m.root
  /\ latch' = m.latch
  /\ th' = m.th
  /\ UNCHANGED <<leaf_max_size_, internal_max_size_>>

\* the model stops where a page id or a pin count passes its bound
InTreeBounds(m) ==
  /\ m.b.next_page_id <= MaxTreePageId
  /\ \A f \in DOMAIN m.b.pages : m.b.pages[f].pin_count_ <= MaxTreePin

\* how the call of thread t ended, or that it has not yet
StatusOf(m, t) ==
  IF m.fault THEN "fault"
  ELSE IF m.blocked THEN "blocked"
  ELSE IF m.th[t].pc = "threw" THEN "threw"
  ELSE IF m.th[t].pc = "done" THEN "done"
  ELSE "running"

\* the last call (its name, what it returned, and the value stored under its
\* key when it was called) and the stored pairs as the completed calls
\* define them
ObserveTree(m, t, op, key, value) ==
  LET c == m.th[t]
      st == StatusOf(m, t)
  IN  /\ tret' = [op |-> op, found |-> c.found, result |-> c.result,
                  was |-> IF op = "Remove" THEN 0 ELSE present[key], status |-> st]
      /\ inserted' = IF st = "done" /\ op = "Insert" /\ c.found
                       THEN [inserted EXCEPT ![key] = @ + 1] ELSE inserted
      /\ present' = IF st # "done" THEN present
                    ELSE IF op = "Insert" /\ c.found THEN [present EXCEPT ![key] = value]
                    ELSE IF op = "Remove" THEN [present EXCEPT ![key] = 0]
                    ELSE present

PoolHistoryUnchanged ==
  UNCHANGED <<ret, new_ids, pins, watched, last_written, unreleased, lru_order, s1, s2>>

\* a whole call by a single thread
TreeCall(op, key, value) ==
  /\ tret.status = "done"
  /\ \E m \in {Run(Call(Machine, 1, op, key, value), 1)} :
       /\ InTreeBounds(m)
       /\ CommitTree(m)
       /\ ObserveTree(m, 1, op, key, value)
  /\ PoolHistoryUnchanged
  /\ UNCHANGED <<conc, iter>>

GetValue(key) == TreeCall("GetValue", key, 0)
Insert(key, value) == TreeCall("Insert", key, value)
Remove(key) == TreeCall("Remove", key, 0)

\* Any sequence of calls by one thread.  A key that is not stored is
\* inserted with value 1, at most MaxInserts times; an Insert of a stored key
\* is tried with every value.
NextTree ==
  \/ \E k \in Keys : GetValue(k)
  \/ \E k \in Keys, v \in Values :
       /\ IF present[k] = 0 THEN v = 1 /\ inserted[k] < MaxInserts ELSE TRUE
       /\ Insert(k, v)
  \/ \E k \in Keys : Remove(k)

SpecTree == InitTree /\ [][NextTree]_vars

\* ---------------------------------------------------------------- claims
PoolVars == <<pages_, page_table_, free_list_, unpin_list_, unpin_map_, next_page_id_, disk>>

Resident(p) == p \in DOMAIN page_table_
FrameOf(p) == page_table_[p]
PinCount(p) == pages_[FrameOf(p)].pin_count_

\* C1: a resident page with pin_count > 0 is never evicted: over any call it
\* stays in the page table, mapped to the same frame, and its bytes change
\* only when its holder writes them.
C1_PinnedPageStays ==
  [][\A p \in DOMAIN page_table_ :
       PinCount(p) > 0 =>
         /\ p \in DOMAIN page_table_'
         /\ page_table_'[p] = FrameOf(p)
         /\ pages_'[FrameOf(p)].page_id_ = p
         /\ ret'.op # "WriteData" => pages_'[FrameOf(p)].data_ = pages_[FrameOf(p)].data_]_vars

\* the sentence of the specification alone: no frame in the replacer is pinned
ReplacerHoldsUnpinned == \A f \in unpin_map_ : pages_[f].pin_count_ = 0

\* C2: every frame is in exactly one of the classes free, resident and
\* pinned, resident and in the replacer; |page_table| + |free_list| =
\* pool_size; the page table is injective; a frame is in the replacer iff
\* it holds a resident page with pin_count 0.
IsFree(f) ==
  /\ f \in Elems(free_list_)
  /\ \A p \in DOMAIN page_table_ : page_table_[p] # f
  /\ f \notin unpin_map_
IsResidentPinned(f) ==
  /\ \E p \in DOMAIN page_table_ : page_table_[p] = f
  /\ pages_[f].pin_count_ > 0
  /\ f \notin unpin_map_
  /\ f \notin Elems(free_list_)
IsResidentUnpinned(f) ==
  /\ \E p \in DOMAIN page_table_ : page_table_[p] = f
  /\ pages_[f].pin_count_ = 0
  /\ f \in unpin_map_
  /\ f \notin Elems(free_list_)

C2_FramePartition ==
  /\ \A f \in Frames : IsFree(f) \/ IsResidentPinned(f) \/ IsResidentUnpinned(f)
  /\ Cardinality(DOMAIN page_table_) + Len(free_list_) = pool_size_
  /\ \A p, q \in DOMAIN page_table_ : page_table_[p] = page_table_[q] => p = q
  /\ \A f \in Frames :
       f \in unpin_map_ <=>
         \E p \in DOMAIN page_table_ : page_table_[p] = f /\ pages_[f].pin_count_ = 0

\* C5: a successful NewPage returns a frame with pin_count 1, dirty flag
\* false and zeroed bytes, holding a page id that no resident page had when
\* the call was made and that no earlier NewPage returned.
C5_NewPageIsFresh ==
  [][(ret'.op = "NewPage" /\ ret'.ok) =>
       /\ pages_'[ret'.frame] = FreshPage(ret'.page_id, 1)
       /\ page_table_'[ret'.page_id] = ret'.frame
       /\ ret'.page_id \notin DOMAIN page_table_
       /\ ret'.page_id \notin new_ids]_vars

\* C6: DeletePage of a resident page with pin_count > 0 returns false, and
\* DeletePage of a page that is not resident returns true; both leave the
\* page table, free list, replacer, frames and disk as they were.
C6_DeletePageRefusals ==
  [][(ret'.op = "DeletePage") =>
       /\ (Resident(ret'.page_id) /\ PinCount(ret'.page_id) > 0) =>
            (~ret'.ok /\ UNCHANGED PoolVars)
       /\ ~Resident(ret'.page_id) => (ret'.ok /\ UNCHANGED PoolVars)]_vars

C6_Witness ==
  /\ ret.op = "DeletePage"
  /\ ~ret.ok
  /\ Resident(ret.page_id)
  /\ PinCount(ret.page_id) > 0
  /\ pages_[FrameOf(ret.page_id)].data_ # 0

\* C7: with the free list and the replacer both empty, FetchPage of a page
\* that is not resident and NewPage return null and change nothing, the
\* next page id included.
Exhausted == free_list_ = <<>> /\ unpin_list_ = <<>>

C7_ExhaustedReturnsNull ==
  [][(/\ Exhausted
      /\ \/ ret'.op = "FetchPage" /\ ~Resident(ret'.page_id)
         \/ ret'.op = "NewPage") =>
       (~ret'.ok /\ ret'.frame = NoFrame /\ UNCHANGED PoolVars)]_vars

C7_Witness ==
  /\ Exhausted
  /\ ret.op \in {"NewPage", "FetchPage"}
  /\ ~ret.ok
  /\ pool_size_ > 1
  /\ \A f \in Frames : pages_[f].pin_count_ > 0 /\ pages_[f].data_ # 0

\* C8: UnpinPage returns false and changes nothing when the page is not
\* resident or its pin_count is 0; otherwise it returns true, lowers the
\* pin_count by exactly 1 and puts the frame into the replacer exactly when
\* the pin_count reaches 0.  So a pin_count is never negative, and it equals
\* the successful FetchPage / NewPage calls minus the successful UnpinPage
\* calls for the page since it became resident.
UnpinPost ==
  \A p \in PageIds :
    (ret'.op = "UnpinPage" /\ ret'.page_id = p) =>
      IF ~Resident(p) \/ PinCount(p) = 0
        THEN ~ret'.ok /\ UNCHANGED PoolVars
        ELSE /\ ret'.ok
             /\ p \in DOMAIN page_table_'
             /\ page_table_'[p] = FrameOf(p)
             /\ pages_'[FrameOf(p)].pin_count_ = PinCount(p) - 1
             /\ unpin_map_' = IF PinCount(p) = 1 THEN unpin_map_ \cup {FrameOf(p)}
                                                 ELSE unpin_map_
             /\ UNCHANGED <<page_table_, free_list_, next_page_id_, disk>>

PinBalance ==
  \A p \in DOMAIN page_table_ : PinCount(p) >= 0 /\ PinCount(p) = pins[p]

C8_UnpinPage == [][UnpinPost /\ PinBalance']_vars

\* the first half of C8 alone
C8_UnpinPost == [][UnpinPost]_vars

\* C3: the bytes of a page survive eviction.  When the last write to the
\* page was released by UnpinPage(p, true), a successful FetchPage(p) returns
\* a frame holding the bytes last written, however often the page was
\* evicted in between.
C3_ContentsSurviveEviction ==
  (/\ ret.op = "FetchPage"
   /\ ret.ok
   /\ ret.page_id = watched
   /\ last_written # {}
   /\ ~unreleased)
  => pages_[ret.frame].data_ \in last_written

\* C4 as stated: pool size 1, NewPage -> p0, write, UnpinPage(p0, true),
\* NewPage -> p1, FetchPage(p0): a frame with the written bytes, not dirty.
S2Fetched ==
  /\ ret.ok
  /\ ret.frame # NoFrame
  /\ pages_[ret.frame].page_id_ = s2.p0
  /\ pages_[ret.frame].data_ = s2.data
  /\ ~pages_[ret.frame].is_dirty_

C4_S2AsStated == (pool_size_ = 1 /\ s2.step = 5) => S2Fetched

\* C4 amended: the same with p1 unpinned before FetchPage(p0).
C4_S2WithUnpin == (pool_size_ = 1 /\ s2.step = 7) => S2Fetched

C4_Witness == pool_size_ = 1 /\ s2.step = 7 /\ ret.miss /\ S2Fetched

\* C9 as stated: on a replacer of size 7, after Unpin 1..6, Pin 1, Pin 4,
\* Unpin 1, Unpin 4, four calls of Victim return 5, 6, 2, 3.
S1Done == pool_size_ = 7 /\ s1.step = Len(S1Calls)

C9_S1AsStated == S1Done => s1.out = <<5, 6, 2, 3>>

\* C9 amended: they return 2, 3, 5, 6.
C9_S1Victims == S1Done => s1.out = <<2, 3, 5, 6>>

C9_Witness == S1Done /\ s1.out = <<2, 3, 5, 6>> /\ unpin_list_ = <<4, 1>>

\* C10: Victim removes and returns the member whose insertion is the
\* oldest, and returns false without a change when there is no member; Size
\* is the number of members, which never exceeds the pool size.
C10_VictimIsOldest ==
  [][/\ (ret'.op = "Victim") =>
          IF unpin_map_ = {}
            THEN ~ret'.ok /\ UNCHANGED <<unpin_list_, unpin_map_>>
            ELSE /\ ret'.ok
                 /\ ret'.frame = Head(lru_order)
                 /\ unpin_map_' = unpin_map_ \ {Head(lru_order)}
                 /\ Elems(unpin_list_') = unpin_map_'
     /\ (ret'.op = "Size") =>
          (ret'.size = Cardinality(unpin_map_) /\ UNCHANGED <<unpin_list_, unpin_map_>>)
     /\ Len(unpin_list_') = Cardinality(unpin_map_')
     /\ Cardinality(unpin_map_') <= pool_size_]_vars

C10_Witness ==
  /\ ret.op = "Victim"
  /\ ret.ok
  /\ Len(lru_order) >= 2
  /\ \E i \in 1 .. Len(lru_order) : lru_order[i] < ret.frame
  /\ \E i \in 1 .. Len(lru_order) : lru_order[i] > ret.frame

\* C11: Pin of a frame that is not in the replacer changes nothing; Unpin of
\* a frame that is in the replacer changes neither the members nor their
\* order (the frame keeps its position); no frame is in the list twice.
C11_PinUnpinIdempotent ==
  [][/\ (ret'.op = "Pin" /\ ret'.frame \notin unpin_map_) =>
          UNCHANGED <<unpin_list_, unpin_map_>>
     /\ (ret'.op = "Unpin" /\ ret'.frame \in unpin_map_) =>
          (UNCHANGED <<unpin_list_, unpin_map_>> /\ lru_order' = lru_order)
     /\ \A i, j \in 1 .. Len(unpin_list_') :
          unpin_list_'[i] = unpin_list_'[j] => i = j]_vars

\* Unpin was called on a member that is not the newest one
C11_Witness ==
  /\ ret.op = "Unpin"
  /\ ret.frame \in unpin_map_
  /\ Len(unpin_list_) >= 2
  /\ Head(unpin_list_) # ret.frame

\* ------------------------------------------------------- the stored tree
\* The tree as the pages hold it when no call is running.
TreeAtRest == tret.status = "done"

\* the data of a page: in its frame when the page is resident, else on disk
NodeOf(page_id) ==
  IF page_id \in DOMAIN page_table_ THEN pages_[page_table_[page_id]].data_
  ELSE disk[page_id]

\* the leaves under the pages ids, from left to right
RECURSIVE LeavesOf(_, _)
LeavesOf(ids, fuel) ==
  IF ids = <<>> THEN <<>>
  ELSE LET p == NodeOf(Head(ids))
       IN  IF IsLeafPage(p) \/ fuel = 0
             THEN <<Head(ids)>> \o LeavesOf(Tail(ids), fuel)
             ELSE LeavesOf(ChildrenOf(p.array), fuel - 1) \o LeavesOf(Tail(ids), fuel)

Leaves == IF root_page_id_ = INVALID_PAGE_ID THEN <<>> ELSE LeavesOf(<<root_page_id_>>, MaxTreePageId)

\* the leaves from page_id on along next_page_id
RECURSIVE ChainFrom(_, _)
ChainFrom(page_id, fuel) ==
  IF page_id = INVALID_PAGE_ID \/ fuel = 0 THEN <<>>
  ELSE <<page_id>> \o ChainFrom(NodeOf(page_id).next_page_id, fuel - 1)

LeafChain == IF Leaves = <<>> THEN <<>> ELSE ChainFrom(Head(Leaves), MaxTreePageId)

\* the keys of the leaves ids, in the order they are stored
RECURSIVE KeysOf(_)
KeysOf(ids) ==
  IF ids = <<>> THEN <<>>
  ELSE [i \in 1 .. GetSize(NodeOf(Head(ids))) |-> NodeOf(Head(ids)).array[i].key]
         \o KeysOf(Tail(ids))

StrictlyIncreasing(s) == \A i \in 1 .. (Len(s) - 1) : s[i] < s[i + 1]

\* the keys inserted and not removed since
StoredKeys == {k \in Keys : present[k] # 0}

\* C12: after any sequence of completed Insert and Remove calls the keys of
\* the leaf chain, read from left to right, are strictly increasing and are
\* exactly the keys inserted and not removed since, and GetValue(k) returns
\* true with the value inserted last exactly when k is one of them.
C12_SortedAndComplete ==
  TreeAtRest =>
    /\ StrictlyIncreasing(KeysOf(LeafChain))
    /\ Elems(KeysOf(LeafChain)) = StoredKeys
    /\ tret.op = "GetValue" =>
         /\ tret.found = (tret.was # 0)
         /\ tret.found => tret.result = tret.was

\* the pairs and the header fields of every page, the root and the page table
TreeUnchanged ==
  /\ root_page_id_' = root_page_id_
  /\ page_table_' = page_table_
  /\ next_page_id_' = next_page_id_
  /\ \A f \in DOMAIN pages_ : pages_'[f].data_ = pages_[f].data_

NoLatchHeld == \A f \in DOMAIN latch : latch[f] = FreeLatch

\* C13: an Insert of a key that is stored returns false, changes no page, no
\* page id and not the root (the value stays, nothing is split), and leaves
\* no latch held; an Insert of a key that is not stored returns true.
C13_DuplicateInsert ==
  [][(tret'.op = "Insert" /\ tret'.status = "done") =>
       /\ tret'.was # 0 => (~tret'.found /\ TreeUnchanged /\ NoLatchHeld')
       /\ tret'.was = 0 => tret'.found]_vars

\* the pages under the pages ids, these included
RECURSIVE PagesOf(_, _)
PagesOf(ids, fuel) ==
  IF ids = <<>> THEN {}
  ELSE LET p == NodeOf(Head(ids))
       IN  {Head(ids)}
             \cup (IF IsLeafPage(p) \/ fuel = 0 THEN {}
                   ELSE PagesOf(ChildrenOf(p.array), fuel - 1))
             \cup PagesOf(Tail(ids), fuel)

TreePages ==
  IF root_page_id_ = INVALID_PAGE_ID THEN {} ELSE PagesOf(<<root_page_id_>>, MaxTreePageId)

SizeBounds ==
  \A id \in TreePages \ {root_page_id_} :
    /\ GetMinSize(NodeOf(id)) <= GetSize(NodeOf(id))
    /\ GetSize(NodeOf(id)) <= GetMaxSize(NodeOf(id))

\* C14: after every completed Insert or Remove every page of the tree but
\* the root holds at least min_size = ceil(max_size / 2) and at most max_size
\* pairs, whatever the leaf and internal max_size.
C14_SizeBounds == TreeAtRest => SizeBounds

\* the keys stored in the leaves under page id
SubtreeKeys(id) == Elems(KeysOf(LeavesOf(<<id>>, MaxTreePageId)))

InternalPages == {id \in TreePages : ~IsLeafPage(NodeOf(id))}

SeparatorOrder ==
  \A id \in InternalPages :
    LET p == NodeOf(id)
    IN  \A i \in 0 .. (GetSize(p) - 1) :
          \A k \in SubtreeKeys(ValueAt(p, i)) :
            /\ i > 0 => k >= KeyAt(p, i)
            /\ i + 1 < GetSize(p) => k < KeyAt(p, i + 1)

\* C15: after every completed Insert or Remove, in every internal page the
\* keys under child i > 0 are >= key[i], and the keys under child i are
\* < key[i + 1] when the page has a child i + 1.
C15_SeparatorOrder == TreeAtRest => SeparatorOrder

ParentPointers ==
  /\ root_page_id_ # INVALID_PAGE_ID =>
       NodeOf(root_page_id_).parent_page_id = INVALID_PAGE_ID
  /\ \A id \in InternalPages :
       \A i \in 0 .. (GetSize(NodeOf(id)) - 1) :
         NodeOf(ValueAt(NodeOf(id), i)).parent_page_id = id

\* C16: after every completed Insert or Remove every child named by an
\* internal page has that page as its parent_page_id, and the root has
\* parent_page_id INVALID_PAGE_ID.
C16_ParentPointers == TreeAtRest => ParentPointers

\* a Remove has moved a child between two internal pages below the root
C16_Witness ==
  /\ TreeAtRest
  /\ tret.op = "Remove"
  /\ \E id \in InternalPages \ {root_page_id_} :
       /\ GetSize(NodeOf(id)) = 2
       /\ \E sib \in InternalPages \ {root_page_id_, id} : GetSize(NodeOf(sib)) = 1

NonDecreasing(s) == \A i \in 1 .. (Len(s) - 1) : s[i] <= s[i + 1]

LeafChainLinked ==
  /\ LeafChain = Leaves
  /\ NodeOf(LeafChain[Len(LeafChain)]).next_page_id = INVALID_PAGE_ID
  /\ NonDecreasing(KeysOf(LeafChain))

\* C17: after every completed Insert or Remove on a tree that is not empty,
\* the leaves met by following next_page_id from the leftmost leaf up to
\* INVALID_PAGE_ID are the leaves of the tree, each once, in their order from
\* left to right, with keys that never decrease; no other page (a leaf
\* emptied by a coalesce) is met.
C17_LeafChain == (TreeAtRest /\ root_page_id_ # INVALID_PAGE_ID) => LeafChainLinked

\* a Remove has coalesced two leaves: the leaf emptied still names the last
\* leaf of the chain and is no page of the tree
C17_Witness ==
  /\ TreeAtRest
  /\ tret.op = "Remove"
  /\ Len(LeafChain) >= 2
  /\ \E id \in 1 .. (next_page_id_ - 1) :
       /\ id \notin TreePages
       /\ IsLeafPage(NodeOf(id))
       /\ NodeOf(id).next_page_id = LeafChain[Len(LeafChain)]

\* the keys 1 .. N, for some N >= 1, have been inserted and all are removed
RoundTripDone ==
  /\ TreeAtRest
  /\ StoredKeys = {}
  /\ \E n \in Keys : \A k \in Keys : inserted[k] > 0 <=> k <= n

\* what GetValue(key) returns in this state
GetValueNow(key) ==
  LET Returned(c) == [found |-> c.found, result |-> c.result]
  IN  Returned(Run(Call(Machine, 1, "GetValue", key, 0), 1).th[1])

\* an Insert has stored a key in the tree a round trip had emptied
LaterInsertDone ==
  /\ TreeAtRest
  /\ tret.op = "Insert" /\ tret.found
  /\ Cardinality(StoredKeys) = 1
  /\ \E k \in Keys : inserted[k] > 0 /\ present[k] = 0

\* C18: when the keys 1 .. N have been inserted and all of them removed, in
\* any order, the tree is empty (root_page_id_ is INVALID_PAGE_ID); an
\* Insert that follows returns true, and GetValue then finds its key.
C18_RoundTrip ==
  /\ [](RoundTripDone => root_page_id_ = INVALID_PAGE_ID)
  /\ [][(RoundTripDone /\ tret'.op = "Insert") => (tret'.status = "done" /\ tret'.found)]_vars
  /\ [](LaterInsertDone =>
          \A k \in StoredKeys : GetValueNow(k) = [found |-> TRUE, result |-> present[k]])

\* ------------------------------------------------ several threads at once
\* Threads call GetValue, Insert and Remove on one tree and run them a step
\* at a time.  A step goes from one latch request to the next; a thread whose
\* request cannot be granted waits (its step is not enabled).
\*
\* conc.calls[t]  the call of thread t: its name and key, what it returned,
\*                the value stored under the key when it began (was), and
\*                whether that value is what every order of the overlapping
\*                calls gives it (known: no Insert or Remove of the key
\*                overlaps it)
\* conc.racy      the keys an Insert or Remove of which overlapped another
\* conc.n         the number of calls begun
\* conc.todo      thread -> the keys it has still to insert (scenario S6)
\* conc.failed    the keys an Insert of scenario S6 did not store
\* present[k]     for k outside conc.racy with no Insert or Remove running:
\*                the value under k as the completed calls define it
MaxCalls == 3

NoConcCall ==
  [op |-> "none", key |-> NoKey, value |-> 0, known |-> FALSE, was |-> 0,
   found |-> FALSE, result |-> 0, status |-> "done"]

\* the tree after BPlusTree(...) on the pool of TreePool
NewTree(leaf_max_size, internal_max_size) ==
  [b |-> PoolOf(TreePool), root |-> INVALID_PAGE_ID, leaf_max |-> leaf_max_size,
   internal_max |-> internal_max_size,
   latch |-> [f \in 0 .. (MaxTreePageId - 1) |-> FreeLatch],
   th |-> [t \in Threads |-> Idle], fault |-> FALSE, blocked |-> FALSE]

\* the tree after Insert(1, 1), ..., Insert(n, 1) by one thread
RECURSIVE Populated(_, _, _)
Populated(leaf_max_size, internal_max_size, n) ==
  IF n = 0 THEN NewTree(leaf_max_size, internal_max_size)
  ELSE LET m == Run(Call(Populated(leaf_max_size, internal_max_size, n - 1), 1, "Insert", n, 1), 1)
       IN  [m EXCEPT !.th[1] = Idle]

ConcConstructed(m, todo) ==
  /\ pool_size_ = MaxTreePageId
  /\ pages_ = m.b.pages
  /\ page_table_ = m.b.page_table
  /\ free_list_ = m.b.free_list
  /\ unpin_list_ = m.b.list
  /\ unpin_map_ = m.b.map
  /\ next_page_id_ = m.b.next_page_id
  /\ disk = m.b.disk
  /\ root_page_id_ = m.root
  /\ leaf_max_size_ = m.leaf_max
  /\ internal_max_size_ = m.internal_max
  /\ latch = m.latch
  /\ th = m.th
  /\ present = [k \in Keys |-> IF \E id \in DOMAIN m.b.page_table :
                                    LET p == m.b.pages[m.b.page_table[id]].data_
                                    IN  /\ id \notin {HEADER_PAGE_ID, guard_page_id}
                                        /\ IsLeafPage(p)
                                        /\ \E i \in 1 .. GetSize(p) : p.array[i].key = k
                                 THEN 1 ELSE 0]
  /\ inserted = [k \in Keys |-> 0]
  /\ tret = NoTreeCall
  /\ conc = [calls |-> [t \in Threads |-> NoConcCall], racy |-> {}, n |-> 0,
             todo |-> todo, failed |-> {}]
  /\ iter = NoIterator
  /\ ret = NoCall
  /\ new_ids = {}
  /\ pins = [p \in PageIds |-> 0]
  /\ watched = INVALID_PAGE_ID
  /\ last_written = {}
  /\ unreleased = FALSE
  /\ lru_order = <<>>
  /\ s1 = S1Off
  /\ s2 = S2Off

Writers(key) ==
  {t \in Threads : Running(Machine, t) /\ th[t].op \in {"Insert", "Remove"} /\ th[t].key = key}

Crashed == \E t \in Threads : conc.calls[t].status = "fault"

\* thread t calls a method of the tree
Begin(t, op, key, value) ==
  /\ ~Crashed
  /\ th[t].pc \in {"idle", "done"}
  /\ LET writes == op # "GetValue"
         call == [op |-> op, key |-> key, value |-> value,
                  known |-> key \notin conc.racy /\ Writers(key) = {},
                  was |-> present[key], found |-> FALSE, result |-> 0, status |-> "running"]
     IN  conc' = [conc EXCEPT
                    !.calls = [u \in Threads |->
                                 IF u = t THEN call
                                 ELSE IF writes /\ Running(Machine, u) /\ th[u].key = key
                                   THEN [conc.calls[u] EXCEPT !.known = FALSE]
                                 ELSE conc.calls[u]],
                    !.racy = IF writes /\ Writers(key) # {} THEN @ \cup {key} ELSE @,
                    !.n = @ + 1,
                    !.todo[t] = @ \ {key}]
  /\ CommitTree(Call(Machine, t, op, key, value))
  /\ UNCHANGED <<present, inserted, tret, iter>>
  /\ PoolHistoryUnchanged

\* thread t runs up to its next latch request or to its return
ThreadStep(t) ==
  /\ ~Crashed
  /\ Running(Machine, t)
  /\ \E m \in {Step(Machine, t)} :
     LET st == StatusOf(m, t)
         call == conc.calls[t]
     IN  /\ ~m.blocked
         /\ InTreeBounds(m)
         /\ CommitTree(m)
         /\ conc' = IF st = "running" THEN conc
                    ELSE [conc EXCEPT
                            !.calls[t].status = st,
                            !.calls[t].found = m.th[t].found,
                            !.calls[t].result = m.th[t].result,
                            !.failed = IF call.op = "Insert" /\ ~(st = "done" /\ m.th[t].found)
                                         THEN @ \cup {call.key} ELSE @]
         /\ present' = IF st # "done" \/ ~call.known THEN present
                       ELSE IF call.op = "Insert" /\ call.was = 0
                         THEN [present EXCEPT ![call.key] = call.value]
                       ELSE IF call.op = "Remove" THEN [present EXCEPT ![call.key] = 0]
                       ELSE present
  /\ UNCHANGED <<inserted, tret, iter>>
  /\ PoolHistoryUnchanged

NoTodo == [t \in Threads |-> {}]

\* an empty tree or one of the keys 1 .. n with n close to MaxKey, then at
\* most MaxCalls calls by the threads; an Insert stores value MaxValue
InitConc ==
  \E l \in 2 .. MaxLeafSize, i \in 3 .. MaxInternalSize, n \in {0} \cup ((MaxKey - 1) .. MaxKey) :
    ConcConstructed(Populated(l, i, n), NoTodo)

NextConc ==
  \/ \E t \in Threads, k \in Keys : conc.n < MaxCalls /\ Begin(t, "GetValue", k, 0)
  \/ \E t \in Threads, k \in Keys : conc.n < MaxCalls /\ Begin(t, "Insert", k, MaxValue)
  \/ \E t \in Threads, k \in Keys : conc.n < MaxCalls /\ Begin(t, "Remove", k, 0)
  \/ \E t \in Threads : ThreadStep(t)

SpecConc == InitConc /\ [][NextConc]_vars

\* C19: GetValue, Insert and Remove run by several threads at once are
\* linearizable: a completed call that no Insert or Remove of its key
\* overlaps returns what the calls completed before it began define (a
\* GetValue finds exactly a stored key, with its value, also while another
\* thread splits a page; an Insert returns true exactly for a key that is
\* not stored).
C19_Linearizable ==
  \A t \in Threads :
    LET c == conc.calls[t]
    IN  (c.status = "done" /\ c.known) =>
          /\ c.op = "GetValue" => (c.found = (c.was # 0) /\ (c.found => c.result = c.was))
          /\ c.op = "Insert" => c.found = (c.was = 0)

\* --------------------------------------------------------- scenario S6
\* MaxThreads threads insert, each in any order, the keys of its own range
\* of KeysPerThread keys into an empty tree.
KeysPerThread == MaxKey \div MaxThreads

RangeOf(t) == ((t - 1) * KeysPerThread + 1) .. (t * KeysPerThread)

InitS6 ==
  \E l \in 2 .. MaxLeafSize, i \in 3 .. MaxInternalSize :
    ConcConstructed(NewTree(l, i), [t \in Threads |-> RangeOf(t)])

NextS6 ==
  \/ \E t \in Threads : \E k \in conc.todo[t] : Begin(t, "Insert", k, 1)
  \/ \E t \in Threads : ThreadStep(t)

SpecS6 == InitS6 /\ [][NextS6]_vars

\* every thread has inserted its range and has returned
S6Over == \A t \in Threads : conc.todo[t] = {} /\ conc.calls[t].status = "done"

\* C20 (scenario S6): when threads insert disjoint ranges of keys at once,
\* under every interleaving every Insert returns true, and in the final tree
\* the leaf chain holds exactly the keys of the ranges, each once and in
\* increasing order, and the size, separator, parent pointer and leaf chain
\* invariants hold.
C20_DisjointInserts ==
  /\ \A t \in Threads : conc.calls[t].status \in {"running", "done"}
  /\ conc.failed = {}
  /\ S6Over =>
       /\ StrictlyIncreasing(KeysOf(LeafChain))
       /\ Elems(KeysOf(LeafChain)) = UNION {RangeOf(t) : t \in Threads}
       /\ SizeBounds
       /\ SeparatorOrder
       /\ ParentPointers
       /\ LeafChainLinked

\* ----------------------------------------------------------- latch waits
\* thread t asks for a latch that another thread or t itself holds
WaitsForLatch(t) == Running(Machine, t) /\ Step(Machine, t).blocked

HoldsLatch(t) == \E f \in DOMAIN latch : latch[f].w = t \/ t \in latch[f].r

\* C21: no deadlock: whatever GetValue, Insert and Remove calls the threads
\* run at once, as long as a call has not returned (and the process has not
\* crashed on a null Page*) some thread can take its next step, so that under
\* a fair scheduler every call returns; a thread that has returned holds no
\* latch.
C21_NoDeadlock ==
  ~Crashed =>
    /\ (\E t \in Threads : Running(Machine, t)) =>
         \E t \in Threads : Running(Machine, t) /\ ~WaitsForLatch(t)
    /\ \A t \in Threads : ~Running(Machine, t) => ~HoldsLatch(t)

\* ============================================================ IndexIterator
\* BPlusTree::FindLeafPage after a FetchPage: unpin the page, fetch the child
\* (the leftmost one, or the one Lookup gives), until a leaf is reached
RECURSIVE FindLeafPageFetched(_, _, _, _, _)
FindLeafPageFetched(r, page_id, key, leftMost, fuel) ==
  LET ip == PageAt(r.m, r.page)
      next_page_id == IF leftMost THEN ValueAt(ip, 0) ELSE InternalLookup(ip, key)
  IN  IF r.page = NoFrame \/ fuel = 0 THEN [m |-> Fault(r.m), page |-> NoFrame]
      ELSE IF IsLeafPage(ip) THEN r
      ELSE FindLeafPageFetched(BpmFetchPage(BpmUnpinPage(r.m, page_id, FALSE), next_page_id),
                               next_page_id, key, leftMost, fuel - 1)

\* (on an empty tree the page of id INVALID_PAGE_ID is read as a tree page)
FindLeafPage(m, key, leftMost) ==
  IF m.root = INVALID_PAGE_ID THEN [m |-> Fault(m), page |-> NoFrame]
  ELSE FindLeafPageFetched(BpmFetchPage(m, m.root), m.root, key, leftMost, MaxTreePageId)

\* BPlusTree::end after a FetchPage: the loop to the rightmost leaf
RECURSIVE EndFetched(_, _, _)
EndFetched(r, page_id, fuel) ==
  LET ip == PageAt(r.m, r.page)
      next_page_id == ValueAt(ip, GetSize(ip) - 1)
  IN  IF r.page = NoFrame \/ fuel = 0 THEN [m |-> Fault(r.m), page |-> NoFrame]
      ELSE IF IsLeafPage(ip) THEN r
      ELSE EndFetched(BpmFetchPage(BpmUnpinPage(r.m, page_id, FALSE), next_page_id),
                      next_page_id, fuel - 1)

RightmostLeaf(m) ==
  IF m.root = INVALID_PAGE_ID THEN [m |-> Fault(m), page |-> NoFrame]
  ELSE EndFetched(BpmFetchPage(m, m.root), m.root, MaxTreePageId)

\* IndexIterator(lp, current_index, bpm) on the leaf that r holds
IteratorMade(r, how, key) ==
  LET lp == PageAt(r.m, r.page)
  IN  /\ InTreeBounds(r.m)
      /\ CommitTree(r.m)
      /\ iter' = IF r.m.fault THEN [NoIterator EXCEPT !.status = "fault"]
                 ELSE [how |-> how, key |-> key, lp |-> r.page,
                       current_index |-> CASE how = "begin" -> 0
                                           [] how = "Begin" -> KeyIndex(lp, key)
                                           [] OTHER -> GetSize(lp),
                       out |-> <<>>, status |-> "alive"]
      /\ UNCHANGED <<present, inserted, tret, conc>>
      /\ PoolHistoryUnchanged

IteratorFree == iter.status = "none" /\ tret.status = "done"

\* BPlusTree::begin()
IteratorBegin == IteratorFree /\ IteratorMade(FindLeafPage(Machine, NoKey, TRUE), "begin", NoKey)

\* BPlusTree::Begin(key)
IteratorBeginAt(key) == IteratorFree /\ IteratorMade(FindLeafPage(Machine, key, FALSE), "Begin", key)

\* BPlusTree::end()
IteratorEnd == IteratorFree /\ IteratorMade(RightmostLeaf(Machine), "end", NoKey)

\* IndexIterator::isEnd
isEnd ==
  LET lp == pages_[iter.lp].data_
  IN  GetSize(lp) = iter.current_index /\ lp.next_page_id = INVALID_PAGE_ID

\* IndexIterator::operator++ after current_index_++, with the next leaf
\* fetched when the end of the leaf is reached
IteratorMoved(m, page, current_index, key) ==
  /\ InTreeBounds(m)
  /\ CommitTree(m)
  /\ iter' = IF m.fault THEN [iter EXCEPT !.status = "fault"]
             ELSE [iter EXCEPT !.lp = page, !.current_index = current_index,
                               !.out = Append(@, key)]
  /\ UNCHANGED <<present, inserted, tret, conc>>
  /\ PoolHistoryUnchanged

IteratorNextFetched(r, old_id, key) ==
  IF r.page = NoFrame THEN IteratorMoved(Fault(r.m), NoFrame, 0, key)
  ELSE IteratorMoved(BpmUnpinPage(r.m, old_id, FALSE), r.page, 0, key)

\* the loop of a scan: while !isEnd(), read operator* and call operator++.
\* operator* at an index behind the last pair reads what the page holds
\* there, which is any key.
IteratorNext ==
  /\ iter.status = "alive"
  /\ ~isEnd
  /\ Len(iter.out) <= MaxKey
  /\ LET lp == pages_[iter.lp].data_
     IN  \E key \in IF iter.current_index < GetSize(lp) THEN {KeyAt(lp, iter.current_index)}
                    ELSE Keys \cup {NoKey} :
           IF GetSize(lp) = iter.current_index + 1 /\ lp.next_page_id # INVALID_PAGE_ID
             THEN IteratorNextFetched(BpmFetchPage(Machine, lp.next_page_id), lp.page_id, key)
             ELSE IteratorMoved(Machine, iter.lp, iter.current_index + 1, key)

\* IndexIterator::~IndexIterator
IteratorDestroyed(m) ==
  /\ InTreeBounds(m)
  /\ CommitTree(m)
  /\ iter' = NoIterator
  /\ UNCHANGED <<present, inserted, tret, conc>>
  /\ PoolHistoryUnchanged

IteratorDestroy ==
  /\ iter.status = "alive"
  /\ IteratorDestroyed(BpmUnpinPage(Machine, pages_[iter.lp].data_.page_id, FALSE))

\* a tree of the keys 1 .. MaxKey from which one thread removes keys, and
\* between the calls one iterator at a time
InitIter ==
  \E l \in 2 .. MaxLeafSize, i \in 3 .. MaxInternalSize :
    ConcConstructed(Populated(l, i, MaxKey), NoTodo)

NextIter ==
  \/ \E k \in Keys : iter.status = "none" /\ present[k] # 0 /\ Remove(k)
  \/ IteratorBegin
  \/ \E k \in Keys : IteratorBeginAt(k)
  \/ IteratorEnd
  \/ IteratorNext
  \/ IteratorDestroy

SpecIter == InitIter /\ [][NextIter]_vars

\* the stored keys in increasing order
SortedStored ==
  [i \in 1 .. Cardinality(StoredKeys) |->
     CHOOSE k \in StoredKeys : Cardinality({j \in StoredKeys : j < k}) = i - 1]

IteratorOnEntry(key) ==
  LET lp == pages_[iter.lp].data_
  IN  iter.current_index < GetSize(lp) /\ KeyAt(lp, iter.current_index) = key

\* a scan from begin() has read the stored keys in increasing order, each
\* once, when isEnd() is reached, and a part of them before
ScanInOrder ==
  (iter.status = "alive" /\ iter.how = "begin") =>
    /\ Len(iter.out) <= Len(SortedStored)
    /\ iter.out = SubSeq(SortedStored, 1, Len(iter.out))
    /\ isEnd => iter.out = SortedStored

\* Begin(key) is on the entry of the smallest stored key >= key, at the end
\* if there is none
BeginPositioned ==
  (iter.status = "alive" /\ iter.how = "Begin" /\ iter.out = <<>>) =>
    LET later == {k \in StoredKeys : k >= iter.key}
    IN  IF later = {} THEN isEnd
        ELSE IteratorOnEntry(CHOOSE k \in later : \A j \in later : k <= j)

EndIsEnd == (iter.status = "alive" /\ iter.how = "end") => isEnd

\* C22: on a tree that is not empty, a scan from begin() with operator++
\* until isEnd() reads every stored key once, in increasing order; Begin(key)
\* is on the entry with the smallest stored key >= key for any key, or at the
\* end when there is none; end().isEnd() is true.
C22_Iterator == ScanInOrder /\ BeginPositioned /\ EndIsEnd

\* ------------------------------------------------------- the header page
\* the root page id that the header page records for this index
RecordedRootId == GetRootId(pages_[page_table_[HEADER_PAGE_ID]].data_)

\* C23: after every completed Insert or Remove the root page id that the
\* header page records for the index is the tree's root_page_id_ (no record
\* counts as INVALID_PAGE_ID).
C23_HeaderRoot ==
  (TreeAtRest /\ tret.op \in {"Insert", "Remove"}) => RecordedRootId = root_page_id_

\* ------------------------------------------------------- the dirty flag
\* the call has cleared the dirty flag of frame f
DirtyCleared(f) == pages_[f].is_dirty_ /\ ~pages_'[f].is_dirty_

\* the call has written the bytes of the page in frame f to disk: they are
\* on disk after it, unless a dirty frame holding the same page id was
\* written after it, or NewPage has evicted the frame and written the new
\* page under the same page id
WrittenToDisk(f) ==
  LET p == pages_[f].page_id_
  IN  \/ \E g \in Frames :
           pages_[g].page_id_ = p /\ pages_[g].is_dirty_ /\ disk'[p] = pages_[g].data_
      \/ ret'.op = "NewPage" /\ ret'.ok /\ ret'.page_id = p

\* C24: the dirty flag is sticky: a call clears the dirty flag of a frame
\* only if it writes the page's bytes to disk (FlushPage, FlushAllPages,
\* DeletePage, or FetchPage and NewPage evicting the page); UnpinPage(p,
\* false) and a FetchPage hit leave it set.
C24_DirtySticky ==
  [][\A f \in Frames :
       DirtyCleared(f) =>
         /\ WrittenToDisk(f)
         /\ ret'.op \in {"FlushPage", "FlushAllPages", "DeletePage", "NewPage", "FetchPage"}
         /\ ret'.op = "FetchPage" => ret'.miss]_vars

\* UnpinPage(p, false) has left a dirty page dirty
C24_Witness ==
  /\ ret.op = "UnpinPage" /\ ret.ok /\ ~ret.is_dirty
  /\ pages_[ret.frame].is_dirty_
  /\ pages_[ret.frame].data_ # disk[ret.page_id]

\* ------------------------------------------------------- flushing
\* the call has left pin counts, page table, free list and replacer alone
FlushKeepsFrames ==
  /\ \A f \in Frames : pages_'[f].pin_count_ = pages_[f].pin_count_
  /\ \A f \in Frames : pages_'[f].page_id_ = pages_[f].page_id_ /\ pages_'[f].data_ = pages_[f].data_
  /\ UNCHANGED <<page_table_, free_list_, unpin_list_, unpin_map_, next_page_id_>>

\* FlushPage(p) on a page that is INVALID or not resident
FlushPageRefused ==
  ret'.op = "FlushPage" /\ (ret'.page_id = INVALID_PAGE_ID \/ ~Resident(ret'.page_id))
    => ~ret'.ok /\ UNCHANGED PoolVars

\* FlushPage(p) on a resident page
FlushPageDone ==
  ret'.op = "FlushPage" /\ Resident(ret'.page_id)
    => LET f == FrameOf(ret'.page_id)
       IN  /\ ret'.ok
           /\ disk' = IF pages_[f].is_dirty_
                        THEN [disk EXCEPT ![ret'.page_id] = pages_[f].data_]
                        ELSE disk
           /\ ~pages_'[f].is_dirty_
           /\ \A g \in Frames \ {f} : pages_'[g] = pages_[g]
           /\ FlushKeepsFrames

\* FlushAllPages
FlushAllPagesDone ==
  ret'.op = "FlushAllPages"
    => /\ \A p \in DOMAIN page_table_' : ~pages_'[page_table_'[p]].is_dirty_
       /\ FlushKeepsFrames

\* C25: FlushPage(p) returns false and changes nothing when p is INVALID or
\* not resident; for a resident page it returns true, writes the page to disk
\* iff it is dirty, leaves the dirty flag false and leaves pin counts, page
\* table, free list and replacer unchanged. FlushAllPages leaves every
\* resident page clean and changes no pin count.
C25_FlushEffect ==
  [][FlushPageRefused /\ FlushPageDone /\ FlushAllPagesDone]_vars

\* FlushPage has written a dirty pinned page whose bytes were not on disk
C25_Witness ==
  /\ ret.op = "FlushPage" /\ ret.ok
  /\ pages_[ret.frame].pin_count_ > 0
  /\ ~pages_[ret.frame].is_dirty_
  /\ pages_[ret.frame].data_ # 0
  /\ disk[ret.page_id] = pages_[ret.frame].data_

\* ------------------------------------------------------- the guard latch
\* the frame of the guard page
GuardFrame == page_table_[guard_page_id]

\* thread t has taken a step
Stepped(t) == th'[t] # th[t]

\* thread t has fetched the root page and not yet latched it
AtRoot(t) ==
  /\ th[t].pc = "descend"
  /\ th[t].page_set # <<>>
  /\ th[t].page_set[Len(th[t].page_set)] = GuardFrame

\* thread t holds the guard latch in the mode of its operation
HoldsGuard(t) ==
  IF th[t].op = "GetValue" THEN t \in latch[GuardFrame].r ELSE latch[GuardFrame].w = t

\* a step that writes root_page_id_ is taken by a thread that holds the
\* guard latch exclusively, or takes it in this step from a free latch,
\* while no other thread is between its read of root_page_id_ and its latch
\* on the root page
RootWriteGuarded ==
  root_page_id_' # root_page_id_ =>
    \E t \in Threads :
      /\ Stepped(t)
      /\ th[t].op \in {"Insert", "Remove"}
      /\ \/ latch[GuardFrame].w = t
         \/ th[t].pc = "begin" /\ latch[GuardFrame] = FreeLatch
      /\ \A u \in Threads \ {t} : ~AtRoot(u)

\* a thread that has read root_page_id_ holds the guard latch until it has
\* latched the root page, and the page it has fetched is the root
RootReadGuarded ==
  \A t \in Threads :
    AtRoot(t) => HoldsGuard(t) /\ th[t].page = page_table_[root_page_id_]

\* C26: root changes are serialized by the guard latch: GetValue holds the
\* guard latch shared and Insert and Remove hold it exclusive from before the
\* read of root_page_id_ until the root page is latched, and every write of
\* root_page_id_ is made by a thread that holds the guard latch exclusively,
\* so no thread reads a root_page_id_ that is about to change or descends
\* from a stale root.
C26_RootSerialized == [][RootWriteGuarded /\ RootReadGuarded /\ RootReadGuarded']_vars

\* an Insert has made a new root (the page allocated last) and returned, and
\* another thread has read the new root_page_id_ under the guard latch
C26_Witness ==
  \E t \in Threads, u \in Threads :
    /\ t # u
    /\ th[t].pc = "done" /\ th[t].op = "Insert"
    /\ root_page_id_ = next_page_id_ - 1
    /\ ~IsLeafPage(NodeOf(root_page_id_))
    /\ AtRoot(u) /\ HoldsGuard(u)

\* ------------------------------------------------------- write crabbing
\* thread t runs an Insert or a Remove
Writer(t) == th[t].op \in {"Insert", "Remove"}

\* the step of t has released a page of its page set
ReleasedPages(t) == ~(Elems(th[t].page_set) \subseteq Elems(th'[t].page_set))

\* a writer releases pages only when its call ends or when the page it has
\* just latched exclusively is safe
ReleasedWhenSafe ==
  \A t \in Threads :
    (Writer(t) /\ Stepped(t) /\ ReleasedPages(t) /\ th'[t].pc \notin {"done", "threw"}) =>
      /\ th[t].pc = "descend"
      /\ th'[t].page_set = <<th[t].page>>
      /\ latch[th[t].page].w # t
      /\ latch'[th[t].page].w = t
      /\ IsSafe(pages_[th[t].page].data_, th[t].op)

\* the step has changed the entries or the links of the tree page in frame
\* f, which the call of t has not allocated itself (a change of nothing but
\* parent_page_id is what a moved entry's child page gets)
Modified(f, t) ==
  /\ pages_[f].page_id_ \notin {INVALID_PAGE_ID, HEADER_PAGE_ID, guard_page_id}
  /\ pages_[f].page_id_ \notin Elems(th[t].unpins)
  /\ pages_'[f].page_id_ = pages_[f].page_id_
  /\ [pages_'[f].data_ EXCEPT !.parent_page_id = pages_[f].data_.parent_page_id] # pages_[f].data_

\* AdjustRoot has made the only child of the old root the root
Promoted(t) ==
  /\ th[t].op = "Remove"
  /\ root_page_id_' \notin {root_page_id_, INVALID_PAGE_ID}

\* a writer past its descent modifies a page only under that page's
\* exclusive latch: the latch it holds, or for a sibling the latch it takes,
\* which then was free
ModifiedUnderLatch ==
  \A t \in Threads :
    (Writer(t) /\ Stepped(t) /\ th[t].pc \in {"leaf", "parent", "rebalance"}) =>
      /\ \A f \in Frames :
           Modified(f, t) => latch[f].w = t \/ (th[t].pc = "rebalance" /\ latch[f] = FreeLatch)
      /\ Promoted(t) => latch[page_table_[root_page_id_']].w = t

\* the page of the page set of t that was judged safe, NoFrame if none was
SafePage(t) ==
  IF th[t].page_set = <<>> \/ th[t].page_set[1] = GuardFrame THEN NoFrame
  ELSE th[t].page_set[1]

\* the page a writer has judged safe is not split, coalesced or made to
\* underflow by a later step of the writer
SafeStays ==
  \A t \in Threads :
    (Writer(t) /\ Stepped(t) /\ th[t].pc \in {"leaf", "parent", "rebalance"}
       /\ SafePage(t) # NoFrame) =>
      LET f == SafePage(t)
          p == pages_[f].data_
          q == pages_'[f].data_
      IN  /\ pages_'[f].page_id_ = pages_[f].page_id_
          /\ IF th[t].op = "Insert"
               THEN /\ GetSize(q) >= GetSize(p)
                    /\ GetSize(q) <= GetMaxSize(q) - (IF IsLeafPage(q) THEN 1 ELSE 0)
               ELSE GetSize(q) >= GetMinSize(q)

\* C27: write crabbing is sound: a writer releases its ancestors during the
\* descent only after the child is latched exclusively and judged safe;
\* when it later modifies an existing parent, ancestor or sibling page it
\* holds that page's exclusive latch; and the page judged safe is not
\* split, coalesced or made to underflow by the operation.
C27_SafeCrabbing == [][ReleasedWhenSafe /\ ModifiedUnderLatch /\ SafeStays]_vars

\* a writer has released the ancestors of a page it judged safe and kept the
\* latches below it, and a page below has split or underflowed
C27_Witness ==
  \E t \in Threads :
    /\ Writer(t)
    /\ th[t].pc \in {"parent", "rebalance"}
    /\ SafePage(t) # NoFrame
    /\ latch[SafePage(t)].w = t
    /\ latch[GuardFrame].w # t
    /\ Len(th[t].page_set) >= 2

\* ------------------------------------------------------- pin balance
\* the call has given back every pin it took: a page that stays in its frame
\* has the pin count it had before the call, and a page that came into a
\* frame during the call has pin count 0
PinsBalanced ==
  \A f \in Frames :
    pages_'[f].page_id_ # INVALID_PAGE_ID =>
      pages_'[f].pin_count_ = IF pages_'[f].page_id_ = pages_[f].page_id_
                                THEN pages_[f].pin_count_ ELSE 0

\* C28: when an Insert returns (first insert into an empty tree, duplicate
\* key, plain insert, leaf split, split propagating into an existing parent,
\* split creating a new root), every page it fetched or allocated has been
\* unpinned as often as it was pinned: with no other thread or iterator
\* active no page is left with a pin of the call.
C28_InsertPinBalance ==
  [][(tret'.op = "Insert" /\ tret'.status = "done") => PinsBalanced]_vars

\* C29: when a Remove returns (empty tree, key absent, plain removal,
\* coalesce with the left or the right sibling, redistribution with the left
\* or the right sibling, recursive coalesce, root adjustment), every page it
\* fetched has been unpinned exactly as often as it was pinned and no other
\* page's pin count has changed.
C29_RemovePinBalance ==
  [][(tret'.op = "Remove" /\ tret'.status = "done") => PinsBalanced]_vars

\* ------------------------------------------------------- GetValue
\* the call has set no dirty flag
NoneDirtied == \A f \in Frames : pages_'[f].is_dirty_ => pages_[f].is_dirty_

\* after the call thread t holds no latch and its page set is empty
Unlatched(t) ==
  /\ \A f \in Frames : latch'[f].w # t /\ t \notin latch'[f].r
  /\ th'[t].page_set = <<>>

\* a GetValue that has latched the guard page holds a latch until it returns
GetValueHoldsLatch ==
  \A t \in Threads :
    (th[t].op = "GetValue" /\ th[t].pc \in {"descend", "leaf"}) =>
      \E f \in Frames : t \in latch[f].r

\* C30: GetValue has no side effect on the cache: on every path (empty
\* tree, key found, key absent) it returns holding no latch, with an empty
\* page set, with every page it fetched (the guard page too) back at its
\* pin count of before the call, and with no dirty flag set.
C30_GetValueNoEffect ==
  [][(tret'.op = "GetValue" /\ tret'.status = "done") =>
       /\ Unlatched(1)
       /\ PinsBalanced
       /\ NoneDirtied
       /\ UNCHANGED <<page_table_, free_list_, next_page_id_, disk, root_page_id_>>]_vars

\* ------------------------------------------------- a pool that runs out
\* The index on a pool of n frames, n at most MaxSmallPool: the header page
\* takes one frame and stays pinned, so a call finds every frame pinned
\* after a few fetches and FetchPage or NewPage returns nullptr.
MaxSmallPool == 3

SmallPool(n) ==
  LET r == NewPageImpl(
             [pages |-> [f \in 0 .. (n - 1) |-> FreshPage(INVALID_PAGE_ID, 0)],
              page_table |-> EmptyMap, free_list |-> Iota(0, n),
              list |-> <<>>, map |-> {}, next_page_id |-> 0,
              disk |-> [p \in TreePageIds |-> 0]])
  IN  [r EXCEPT !.pages[r.frame].data_ = <<>>]

SmallConstructed(leaf_max_size, internal_max_size, n) ==
  /\ pool_size_ = n
  /\ pages_ = SmallPool(n).pages
  /\ page_table_ = SmallPool(n).page_table
  /\ free_list_ = SmallPool(n).free_list
  /\ unpin_list_ = SmallPool(n).list
  /\ unpin_map_ = SmallPool(n).map
  /\ next_page_id_ = SmallPool(n).next_page_id
  /\ disk = SmallPool(n).disk
  /\ root_page_id_ = INVALID_PAGE_ID
  /\ leaf_max_size_ = leaf_max_size
  /\ internal_max_size_ = internal_max_size
  /\ latch = [f \in 0 .. (n - 1) |-> FreeLatch]
  /\ th = [t \in Threads |-> Idle]
  /\ present = [k \in Keys |-> 0]
  /\ inserted = [k \in Keys |-> 0]
  /\ tret = NoTreeCall
  /\ conc = <<>>
  /\ iter = NoIterator
  /\ ret = NoCall
  /\ new_ids = {}
  /\ pins = [p \in PageIds |-> 0]
  /\ watched = INVALID_PAGE_ID
  /\ last_written = {}
  /\ unreleased = FALSE
  /\ lru_order = <<>>
  /\ s1 = S1Off
  /\ s2 = S2Off

InitSmall ==
  \E l \in 2 .. MaxLeafSize, i \in 3 .. MaxInternalSize, n \in 1 .. MaxSmallPool :
    SmallConstructed(l, i, n)

SpecSmall == InitSmall /\ [][NextTree]_vars

\* the call has ended with an Exception and thread t has unwound: it holds
\* no latch, its page set is empty and every pin it took is given back
Unwound(t) == tret'.status = "threw" /\ Unlatched(t) /\ PinsBalanced

\* C31: when FetchPage or NewPage returns nullptr inside an Insert or a
\* Remove (StartNewTree, Split, the new root of InsertIntoParent, the
\* descent), the call ends with an Exception and never uses the null page,
\* and the latch-release sweep has run: the thread holds no latch and no
\* pin, so that other calls can proceed.
C31_ExhaustionUnwinds ==
  [][(tret'.op \in {"Insert", "Remove"} /\ tret'.status # "done") => Unwound(1)]_vars

\* ------------------------------------------------------- scenario S3
\* The keys 1 .. MaxS3Key are inserted into an empty tree, each once and in
\* any order, with leaf_max_size up to MaxS3Leaf; conc is the sequence of
\* the keys inserted so far.
MaxS3Key == 5
MaxS3Leaf == 4

S3Keys == 1 .. MaxS3Key

InitS3 ==
  \E l \in 2 .. MaxS3Leaf, i \in 3 .. MaxInternalSize : TreeConstructed(l, i)

S3Insert(key) ==
  /\ tret.status = "done"
  /\ key \notin Elems(conc)
  /\ \E m \in {Run(Call(Machine, 1, "Insert", key, 1), 1)} :
       /\ InTreeBounds(m)
       /\ CommitTree(m)
       /\ tret' = [op |-> "Insert", found |-> m.th[1].found, result |-> m.th[1].result,
                   was |-> 0, status |-> StatusOf(m, 1)]
  /\ conc' = Append(conc, key)
  /\ PoolHistoryUnchanged
  /\ UNCHANGED <<present, inserted, iter>>

NextS3 == \E k \in S3Keys : S3Insert(k)

SpecS3 == InitS3 /\ [][NextS3]_vars

\* the page ids from the root down to the leaf that key belongs to
RECURSIVE PathTo(_, _, _)
PathTo(page_id, key, fuel) ==
  IF IsLeafPage(NodeOf(page_id)) \/ fuel = 0 THEN <<page_id>>
  ELSE <<page_id>> \o PathTo(InternalLookup(NodeOf(page_id), key), key, fuel - 1)

\* the pages the thresholds make an insertion allocate above the leaf: the
\* entry of the new page goes into path[i], which splits when that takes its
\* size over max_size; above the root a new root is made
RECURSIVE PagesAbove(_, _)
PagesAbove(path, i) ==
  IF i = 0 THEN 1
  ELSE IF GetSize(NodeOf(path[i])) + 1 > GetMaxSize(NodeOf(path[i]))
    THEN 1 + PagesAbove(path, i - 1)
    ELSE 0

\* the leaf of key splits when the insertion brings its size to max_size
LeafFills(path) ==
  GetSize(NodeOf(path[Len(path)])) + 1 = GetMaxSize(NodeOf(path[Len(path)]))

\* the pages the thresholds make Insert(key) allocate
PagesExpected(key) ==
  IF root_page_id_ = INVALID_PAGE_ID THEN 1
  ELSE IF LeafFills(PathTo(root_page_id_, key, MaxTreePageId))
    THEN 1 + PagesAbove(PathTo(root_page_id_, key, MaxTreePageId),
                        Len(PathTo(root_page_id_, key, MaxTreePageId)) - 1)
    ELSE 0

\* the page with this id after the call (every page has its frame)
NodeAfter(page_id) == pages_'[page_table_'[page_id]].data_

\* the leaf with this id has split: it keeps the lower half of its pairs
\* with key among them, its new right neighbour has the upper half and the
\* old next_page_id, and the parent has the neighbour's first key
SplitInHalves(leaf_id, key) ==
  LET all == LeafInsert(NodeOf(leaf_id), key, 1).array
      keep == Len(all) \div 2
      new_id == NodeAfter(leaf_id).next_page_id
  IN  /\ NodeAfter(leaf_id).array = SubSeq(all, 1, keep)
      /\ new_id >= next_page_id_
      /\ IsLeafPage(NodeAfter(new_id))
      /\ NodeAfter(new_id).array = SubSeq(all, keep + 1, Len(all))
      /\ NodeAfter(new_id).next_page_id = NodeOf(leaf_id).next_page_id
      /\ \E e \in Elems(NodeAfter(NodeAfter(new_id).parent_page_id).array) :
           e.key = all[keep + 1].key /\ e.value = new_id

\* an Insert allocates the pages the thresholds ask for, and a leaf that
\* fills is split in halves
SplitThresholds ==
  \A k \in S3Keys :
    (conc' = Append(conc, k) /\ tret'.status = "done") =>
      /\ tret'.found
      /\ next_page_id_' - next_page_id_ = PagesExpected(k)
      /\ (root_page_id_ # INVALID_PAGE_ID
            /\ LeafFills(PathTo(root_page_id_, k, MaxTreePageId))) =>
           LET path == PathTo(root_page_id_, k, MaxTreePageId)
           IN  SplitInHalves(path[Len(path)], k)

\* leaf max 4, internal max 4, the keys 1, 2, 3, 4, 5 inserted in this order
S3Done ==
  /\ leaf_max_size_ = 4 /\ internal_max_size_ = 4
  /\ conc = <<1, 2, 3, 4, 5>>
  /\ tret.status = "done"

\* the root is internal with keys [_, 3] over the leaves {1,2} and {3,4,5}
S3Tree ==
  /\ root_page_id_ # INVALID_PAGE_ID
  /\ ~IsLeafPage(NodeOf(root_page_id_))
  /\ GetSize(NodeOf(root_page_id_)) = 2
  /\ KeyAt(NodeOf(root_page_id_), 1) = 3
  /\ Len(Leaves) = 2
  /\ [i \in 1 .. 2 |-> NodeOf(ValueAt(NodeOf(root_page_id_), i - 1)).array]
       = << <<[key |-> 1, value |-> 1], [key |-> 2, value |-> 1]>>,
            <<[key |-> 3, value |-> 1], [key |-> 4, value |-> 1], [key |-> 5, value |-> 1]>> >>

\* C32: a leaf splits exactly when its size equals max_size after an
\* insert, moving its upper half to a new right leaf whose first key is
\* copied into the parent, and an internal page splits only when its size
\* exceeds max_size; with leaf max 4 and internal max 4 the keys 1, 2, 3,
\* 4, 5 inserted into an empty tree give an internal root with keys [_, 3]
\* over the leaves {1,2} and {3,4,5}.
C32_SplitThresholds == [][SplitThresholds /\ (S3Done => S3Tree)']_vars

\* scenario S3 is done and has given that tree
C32_Witness == S3Done /\ S3Tree

\* ------------------------------------------------------- scenario S4
\* The keys 1, 2, .. are inserted in this order into an empty tree and then
\* removed in any order; conc has the key of an Insert and the negated key
\* of a Remove.
S4Insert ==
  /\ \A i \in DOMAIN conc : conc[i] > 0
  /\ Len(conc) < MaxS3Key
  /\ S3Insert(Len(conc) + 1)

S4Remove(key) ==
  /\ tret.status = "done"
  /\ key \in Elems(conc)
  /\ (0 - key) \notin Elems(conc)
  /\ \E m \in {Run(Call(Machine, 1, "Remove", key, 0), 1)} :
       /\ InTreeBounds(m)
       /\ CommitTree(m)
       /\ tret' = [op |-> "Remove", found |-> m.th[1].found, result |-> m.th[1].result,
                   was |-> 0, status |-> StatusOf(m, 1)]
  /\ conc' = Append(conc, 0 - key)
  /\ PoolHistoryUnchanged
  /\ UNCHANGED <<present, inserted, iter>>

NextS4 ==
  \/ S4Insert
  \/ \E k \in S3Keys : S4Remove(k)

SpecS4 == InitS3 /\ [][NextS4]_vars

\* the pages a call takes out of the tree
RemovedPages == TreePages \ TreePages'

\* both sets of the transaction are empty after the call
SetsEmptied == th'[1].page_set = <<>> /\ th'[1].deleted = <<>>

\* the pages taken out of the tree are no longer resident
RemovedDeleted == \A p \in RemovedPages : p \notin DOMAIN page_table_'

\* the same for the pages that no earlier call left pinned
UnpinnedRemovedDeleted ==
  \A p \in RemovedPages :
    pages_[page_table_[p]].pin_count_ = 0 => p \notin DOMAIN page_table_'

\* leaf max 4, internal max 4: 1, 2, 3, 4, 5 inserted, then 4 and 5 removed
S4Done ==
  /\ leaf_max_size_ = 4 /\ internal_max_size_ = 4
  /\ conc = <<1, 2, 3, 4, 5, 0 - 4, 0 - 5>>
  /\ tret.status = "done"

\* a single leaf root {1,2,3} that the header records, the pages of the old
\* root and of the right leaf deleted
S4Tree ==
  /\ root_page_id_ # INVALID_PAGE_ID
  /\ IsLeafPage(NodeOf(root_page_id_))
  /\ NodeOf(root_page_id_).array
       = <<[key |-> 1, value |-> 1], [key |-> 2, value |-> 1], [key |-> 3, value |-> 1]>>
  /\ RecordedRootId = root_page_id_
  /\ DOMAIN page_table_ = {HEADER_PAGE_ID, root_page_id_}

\* C33: every page that Coalesce or AdjustRoot takes out of the tree is
\* deleted from the buffer pool in the final sweep of the Remove, after
\* which both sets of the transaction are empty and the pages taken out are
\* no longer resident; from the tree of scenario S3, Remove(4) and Remove(5)
\* leave a single leaf root {1,2,3} with the header's root id updated and
\* the old internal root and the right leaf deleted.
C33_DeferredDeletion ==
  [][/\ (tret'.op = "Remove" /\ tret'.status = "done") => (SetsEmptied /\ RemovedDeleted)
     /\ (S4Done => S4Tree)']_vars
====
